---- MODULE Spec2Model ----
(***************************************************************************)
(* Playback engine of myy_player: PlaybackManager (player/manager.rs),     *)
(* DemuxerThread (player/demuxer_thread.rs) and PlaybackClock              *)
(* (core/clock.rs), as a state machine.                                    *)
(*                                                                         *)
(* Threads: the controller (the GUI thread, which calls the manager's      *)
(* methods one after the other), the demuxer thread, and the video, audio  *)
(* and subtitle decoder threads.  Every step of a thread is one access to  *)
(* shared state (an atomic, a mutex section, a queue or channel            *)
(* operation); thread-local work is folded into the access that follows.   *)
(* A sleep-poll loop `while cond { sleep }` is a step enabled when cond is *)
(* false.  A blocking send/recv/join is a step enabled when it can return. *)
(***************************************************************************)
EXTENDS Integers, Sequences, FiniteSets, TLC

VARIABLES
    state,          \* PlayerState.state (PlaybackState)
    path,           \* current_file_path: "none", or the source whose path it holds
    running,        \* running: AtomicBool
    first_audio,    \* is_first_audio_frame: AtomicBool
    need_flush,     \* need_flush_decoders: AtomicBool
    is_network,     \* is_network_source: AtomicBool
    seek_position,  \* Option<(i64, Instant)>: None or [target, expired]
    clock,          \* ClockInner
    audio_output,   \* audio_output.is_some()
    handles,        \* the Option<JoinHandle>s and demuxer_thread_handle
    dt_tx,          \* DemuxerThread.video_packet_tx/audio_packet_tx are Some
    cmds,           \* seek_tx / command_tx channel contents
    demux,          \* demuxer thread: pc, reader position, packet in hand
    vpq, apq, spq,  \* packet queues (legacy SegQueue, DemuxerThread channel)
    vdec, adec, sdec, \* decoder threads: pc, frame in hand
    vfq, afq, sfq,  \* video / audio / subtitle frame queues
    ctl,            \* controller: pc, call being executed, its argument, and
                    \* whether workers were alive when its stop() began
    budget,         \* how many opens and seeks the user may still issue
    media,          \* the container the user plays: its packets in file order
    obs,            \* history: what an observer of the run has recorded
    audio_buffer,   \* AudioOutput.buffer holds samples the device has not played
    current_frame_pts, \* VideoPlayerApp.current_frame_pts: NoPts for None
    external_subtitle_frames, \* external_subtitle_frames: Vec<SubtitleFrame>
    call,           \* the last call of a function of the library: its name,
                    \* its argument and the value it returned
    locks,          \* the mutexes of the PlaybackManager: what each thread has
                    \* left to do in its call, and the guards it holds
    stream_manager, \* NetworkStreamManager: its reconnect_config and the
                    \* connections made
    sink            \* AudioOutput.buffer frame by frame, and what became of the frames

vars == <<state, path, running, first_audio, need_flush, is_network,
          seek_position, clock, audio_output, handles, dt_tx, cmds, demux,
          vpq, apq, spq, vdec, adec, sdec, vfq, afq, sfq, ctl, budget, media, obs,
          audio_buffer, current_frame_pts, external_subtitle_frames, call,
          locks, stream_manager,
          sink>>

-----------------------------------------------------------------------------
(* Bounds of the model *)

\* user opens (open / open_stream / attach_demuxer / attach_demuxer_async)
MaxOpens == 2
\* user seeks per session
MaxSeeks == 1
\* seeks in a burst
MaxBurst == 2

(* Program constants.  The queue limits are scaled down so that the model   *)
(* reaches them with a stream of a few packets; their order is the source's. *)

\* VIDEO_CAPACITY (200) and AUDIO_CAPACITY (150) of the bounded channels
VIDEO_CAPACITY == 1
AUDIO_CAPACITY == 1
\* VIDEO_QUEUE_SOFT_LIMIT (36) / VIDEO_QUEUE_HARD_LIMIT (48)
VIDEO_QUEUE_SOFT_LIMIT == 1
VIDEO_QUEUE_HARD_LIMIT == 2
\* AUDIO_QUEUE_SOFT_LIMIT (80) / AUDIO_QUEUE_HARD_LIMIT (120)
AUDIO_QUEUE_SOFT_LIMIT == 1
AUDIO_QUEUE_HARD_LIMIT == 2
\* LOCAL_MAX_FRAMES (20) and max_video_frames (30) of the legacy video decoder
LOCAL_MAX_FRAMES == 1
NET_MAX_VIDEO_FRAMES == 2
\* LOCAL_MAX_AUDIO_FRAMES (80) and max_audio_frames (300) of the legacy audio decoder
LOCAL_MAX_AUDIO_FRAMES == 1
NET_MAX_AUDIO_FRAMES == 2
\* max_queue_size of the legacy demux thread: 300 local, 1000 network
LOCAL_MAX_PACKETS == 1
NET_MAX_PACKETS == 2
\* frames one decode() call yields in this model
Batch == 1
\* TARGET_VIDEO_PACKETS (40) / TARGET_AUDIO_PACKETS (80) of the buffering loop
TARGET_VIDEO_PACKETS == 1
TARGET_AUDIO_PACKETS == 1
\* BUFFER_TIMEOUT_MS (8000) in rounds of the 20 ms poll
BUFFER_TIMEOUT_POLLS == 1

\* seek filter: tolerance below the target and window above it, in ms
VIDEO_TOLERANCE == 1000
AUDIO_TOLERANCE == 500
SEEK_UPPER == 10000

\* render_video_area: the lag above which the video jumps ahead, the lag above
\* which it catches up slowly, the update thresholds of the two lower tiers,
\* how far behind the clock a frame may be to end the jump, and the frames one
\* jump may examine
JUMP_LAG == 150
CATCHUP_LAG == 50
CATCHUP_THRESHOLD == 30
SYNC_THRESHOLD == 40
JUMP_STALE == 80
JUMP_FRAMES == 10

\* wall time that passes in one step of time, in ms, and how many such steps
\* the clock may run ahead of 0
TICK_MS == 600
MaxTicks == 2

\* "no packet / no frame / no position" for an Option<i64>
NoPts == 0 - 1

\* no function of the library has been called
NoCall == [fn |-> "none", arg |-> <<>>, ret |-> <<>>]

\* AudioOutput::new: the buffer is empty; nothing was popped from the audio
\* frame queue, played by the device or cleared
NoSink == [buffer |-> <<>>, popped |-> <<>>, played |-> <<>>, cleared |-> <<>>]

\* ReconnectConfig::default().max_attempts
MAX_ATTEMPTS == 5

\* NetworkStreamManager::new: ReconnectConfig::default(), no connection made,
\* no reset_reconnect_count left to call
NoNet == [enabled |-> TRUE, max_attempts |-> MAX_ATTEMPTS, current_attempt |-> 0,
          connects |-> 0, resets |-> 0]

\* the threads that take the mutexes of the PlaybackManager
LockThreads == {"controller", "gui", "video", "audio"}

\* no thread is in a call, no guard is held, no mutex was ever taken while
\* another was held
NoLocks == [prog |-> [th \in LockThreads |-> <<>>],
            held |-> [th \in LockThreads |-> <<>>],
            mode |-> [th \in LockThreads |-> "idle"],
            nested |-> {}]

\* A container: packets in file order, each with its stream and its PTS.
\* A file with a subtitle track:
SubtitledFile == << [k |-> "V", pts |-> 0],    [k |-> "A", pts |-> 0],
                    [k |-> "S", pts |-> 0],
                    [k |-> "V", pts |-> 3000], [k |-> "A", pts |-> 3000] >>
\* A file with a video and an audio track:
PlainFile == << [k |-> "V", pts |-> 0],    [k |-> "A", pts |-> 0],
                [k |-> "V", pts |-> 3000], [k |-> "A", pts |-> 3000] >>

\* positions the user may seek to
SeekTargets == {0, 3000}

PlaybackState == {"Idle", "Opening", "Playing", "Paused", "Seeking",
                  "Buffering", "Stopped", "Error"}

EntryPoints == {"open", "open_stream", "attach", "attach_async"}
DemuxerThreadEntryPoints == {"attach_async"}

-----------------------------------------------------------------------------
(* Pure helpers *)

\* Demuxer::seek_internal: input_ctx.seek(ts, ..ts) positions the reader on the
\* last packet group whose timestamp is at or before the target.
SeekIndex(t) ==
    LET at == {i \in 1..Len(media) : media[i].pts <= t}
        best == IF at = {} THEN media[1].pts
                ELSE media[CHOOSE i \in at : \A j \in at : media[j].pts <= media[i].pts].pts
    IN  CHOOSE i \in 1..Len(media) :
            /\ media[i].pts = best
            /\ \A j \in 1..Len(media) : media[j].pts = best => i <= j

\* PlaybackClock::now / now_unlocked; playback_rate is kept in percent, and
\* (elapsed as f64 * playback_rate) as i64 truncates
ClockNow(c) ==
    IF c.paused THEN c.paused_at ELSE c.base_pts + (c.elapsed * c.rate) \div 100

\* PlaybackClock::set_time
ClockSetTime(c, pts) == [c EXCEPT !.base_pts = pts, !.elapsed = 0, !.paused_at = pts]

\* a play() that keeps the base_instant of before the pause
ClockPlayKeepsInstant(c) ==
    IF c.paused
    THEN [c EXCEPT !.base_pts = c.paused_at, !.paused = FALSE]
    ELSE c

\* PlaybackClock::play
ClockPlay(c) ==
    IF c.paused
    THEN [c EXCEPT !.base_pts = c.paused_at, !.elapsed = 0, !.paused = FALSE]
    ELSE c

\* PlaybackClock::pause
ClockPause(c) ==
    IF ~c.paused
    THEN [c EXCEPT !.paused_at = ClockNow(c), !.paused = TRUE]
    ELSE c

\* PlaybackClock::new
ClockNew == [base_pts |-> 0, elapsed |-> 0, rate |-> 100, paused |-> TRUE, paused_at |-> 0]

\* a set_rate() that only stores the rate
ClockSetRateUnanchored(c, rate) == [c EXCEPT !.rate = rate]

\* PlaybackClock::set_rate
ClockSetRate(c, rate) ==
    IF ~c.paused
    THEN [c EXCEPT !.base_pts = ClockNow(c), !.elapsed = 0, !.rate = rate]
    ELSE [c EXCEPT !.rate = rate]

\* seek_position = None, and Some((target, issued_at)); `expired` stands for
\* issued_at.elapsed() > 2 s
NoSeek == [some |-> FALSE, target |-> 0, expired |-> FALSE]
SomeSeek(t) == [some |-> TRUE, target |-> t, expired |-> FALSE]

\* the legacy video decoder's seek filter: <<should_skip, slot afterwards>>
LegacyVideoFilter(slot, pts) ==
    IF ~slot.some THEN <<FALSE, slot>>
    ELSE IF slot.expired THEN <<FALSE, NoSeek>>
    ELSE IF pts < slot.target - VIDEO_TOLERANCE THEN <<TRUE, slot>>
    ELSE IF pts > slot.target + SEEK_UPPER THEN <<TRUE, slot>>
    ELSE <<FALSE, slot>>

\* the legacy audio decoder's seek filter:
\* <<should_skip, is_first_valid_frame, slot afterwards>>
LegacyAudioFilter(slot, pts) ==
    IF ~slot.some THEN <<FALSE, FALSE, slot>>
    ELSE IF slot.expired THEN <<FALSE, FALSE, NoSeek>>
    ELSE IF pts < slot.target - AUDIO_TOLERANCE THEN <<TRUE, FALSE, slot>>
    ELSE IF pts > slot.target + SEEK_UPPER THEN <<TRUE, FALSE, slot>>
    ELSE <<FALSE, TRUE, NoSeek>>

\* the DemuxerThread-mode decoders' seek filter (the slot is only read)
DtFilter(slot, pts, tolerance) ==
    IF ~slot.some THEN FALSE
    ELSE IF slot.expired THEN FALSE
    ELSE pts < slot.target - tolerance

-----------------------------------------------------------------------------
(* Initial state: PlaybackManager::new *)

\* the controller between two calls
Idle == [pc |-> "idle", ret |-> "idle", op |-> "none", t |-> 0, live |-> FALSE]

\* history: threads found orphaned at a spawn; the target of the last seek of
\* the session; whether the GUI / the sink still waits for its first frame
\* after that seek returned; the source of the last session that started
NoObs == [orphans |-> {}, issued |-> NoPts, firstV |-> FALSE, firstA |-> FALSE,
          source |-> "none"]

NoDemux == [pc |-> "none", rpos |-> 1, pkt |-> 0, exit |-> "none"]
NoThread == [pc |-> "none", frame |-> NoPts, fv |-> FALSE, recent |-> FALSE]

Init ==
    /\ state = "Idle"
    /\ path = "none"
    /\ running = FALSE
    /\ first_audio = TRUE
    /\ need_flush = FALSE
    /\ is_network = FALSE
    /\ seek_position = NoSeek
    /\ clock = ClockNew
    /\ audio_output = FALSE
    /\ handles = [demux |-> FALSE, dt |-> FALSE, video |-> FALSE,
                  audio |-> FALSE, sub |-> FALSE]
    /\ dt_tx = FALSE
    /\ cmds = <<>>
    /\ demux = NoDemux
    /\ vpq = <<>> /\ apq = <<>> /\ spq = <<>>
    /\ vdec = NoThread /\ adec = NoThread /\ sdec = NoThread
    /\ vfq = <<>> /\ afq = <<>> /\ sfq = <<>>
    /\ external_subtitle_frames = <<>> /\ call = NoCall
    /\ locks = NoLocks
    /\ sink = NoSink
    /\ stream_manager = NoNet
    /\ ctl = Idle
    /\ budget = [opens |-> MaxOpens, seeks |-> 0]
    /\ media = SubtitledFile
    /\ obs = NoObs
    /\ audio_buffer = FALSE
    /\ current_frame_pts = NoPts

\* a thread that has returned from its closure: its locals are gone
Exited(reason) == [NoDemux EXCEPT !.pc = "done", !.exit = reason]
Returned == [NoThread EXCEPT !.pc = "done"]

\* a thread that was spawned and has not returned
Alive(th) == th.pc \notin {"none", "done"}

-----------------------------------------------------------------------------
(* The legacy demux thread: start_playback_threads, manager.rs 1202-1291 *)

\* max_queue_size of the legacy demux thread
MaxPackets == IF is_network THEN NET_MAX_PACKETS ELSE LOCAL_MAX_PACKETS

\* while demux_running.load(): false, the thread returns
LDemuxStop ==
    /\ demux.pc = "l_top" /\ ~running
    /\ demux' = Exited("stop")
    /\ UNCHANGED <<state, path, running, first_audio, need_flush, is_network,
                   seek_position, clock, audio_output, handles, dt_tx, cmds,
                   vpq, apq, spq, vdec, adec, sdec, vfq, afq, sfq, ctl, budget, obs, media,
                   audio_buffer, current_frame_pts,
                   external_subtitle_frames, call, locks, stream_manager, sink>>

\* the try_recv drain: with a seek pending, clear the packet queues, seek the
\* reader to the last target, sleep and continue; else go on to read_packet
LDemuxDrain ==
    /\ demux.pc = "l_top" /\ running
    /\ IF cmds # <<>>
       THEN /\ demux' = [demux EXCEPT !.rpos = SeekIndex(cmds[Len(cmds)].t)]
            /\ vpq' = <<>> /\ apq' = <<>> /\ spq' = <<>>
            /\ cmds' = <<>>
       ELSE /\ demux' = [demux EXCEPT !.pc = "l_read"]
            /\ UNCHANGED <<vpq, apq, spq, cmds>>
    /\ UNCHANGED <<state, path, running, first_audio, need_flush, is_network,
                   seek_position, clock, audio_output, handles, dt_tx,
                   vdec, adec, sdec, vfq, afq, sfq, ctl, budget, obs, media,
                   audio_buffer, current_frame_pts,
                   external_subtitle_frames, call, locks, stream_manager, sink>>

\* demuxer.read_packet() = Ok(Some(..)): push on the stream's packet queue
LDemuxRead ==
    /\ demux.pc = "l_read" /\ demux.rpos <= Len(media)
    /\ LET p == media[demux.rpos] IN
        /\ vpq' = IF p.k = "V" THEN Append(vpq, p.pts) ELSE vpq
        /\ apq' = IF p.k = "A" THEN Append(apq, p.pts) ELSE apq
        /\ spq' = IF p.k = "S" THEN Append(spq, p.pts) ELSE spq
    /\ demux' = [demux EXCEPT !.pc = "l_wait", !.rpos = @ + 1]
    /\ UNCHANGED <<state, path, running, first_audio, need_flush, is_network,
                   seek_position, clock, audio_output, handles, dt_tx, cmds,
                   vdec, adec, sdec, vfq, afq, sfq, ctl, budget, obs, media,
                   audio_buffer, current_frame_pts,
                   external_subtitle_frames, call, locks, stream_manager, sink>>

\* demuxer.read_packet() = Ok(None): break
LDemuxEof ==
    /\ demux.pc = "l_read" /\ demux.rpos > Len(media)
    /\ demux' = Exited("eof")
    /\ UNCHANGED <<state, path, running, first_audio, need_flush, is_network,
                   seek_position, clock, audio_output, handles, dt_tx, cmds,
                   vpq, apq, spq, vdec, adec, sdec, vfq, afq, sfq, ctl, budget, obs, media,
                   audio_buffer, current_frame_pts,
                   external_subtitle_frames, call, locks, stream_manager, sink>>

\* demuxer.read_packet() = Err(e): break
LDemuxErr ==
    /\ demux.pc = "l_read"
    /\ demux' = Exited("err")
    /\ UNCHANGED <<state, path, running, first_audio, need_flush, is_network,
                   seek_position, clock, audio_output, handles, dt_tx, cmds,
                   vpq, apq, spq, vdec, adec, sdec, vfq, afq, sfq, ctl, budget, obs, media,
                   audio_buffer, current_frame_pts,
                   external_subtitle_frames, call, locks, stream_manager, sink>>

\* while (video_pq.len() > max || audio_pq.len() > max) && running { sleep }
LDemuxWait ==
    /\ demux.pc = "l_wait"
    /\ ~((Len(vpq) > MaxPackets \/ Len(apq) > MaxPackets) /\ running)
    /\ demux' = [demux EXCEPT !.pc = "l_top"]
    /\ UNCHANGED <<state, path, running, first_audio, need_flush, is_network,
                   seek_position, clock, audio_output, handles, dt_tx, cmds,
                   vpq, apq, spq, vdec, adec, sdec, vfq, afq, sfq, ctl, budget, obs, media,
                   audio_buffer, current_frame_pts,
                   external_subtitle_frames, call, locks, stream_manager, sink>>

-----------------------------------------------------------------------------
(* DemuxerThread::demux_loop, demuxer_thread.rs 78-187 *)

RECURSIVE RunCommands(_, _)
\* the command loop over the pending commands cs, in order, up to a Stop:
\* <<reader position, stopped>>
RunCommands(cs, rpos) ==
    IF cs = <<>> THEN <<rpos, FALSE>>
    ELSE IF Head(cs).op = "Stop" THEN <<rpos, TRUE>>
    ELSE RunCommands(Tail(cs), SeekIndex(Head(cs).t))

RECURSIVE AfterStop(_)
\* the commands left in the channel when the loop broke on a Stop
AfterStop(cs) ==
    IF cs = <<>> THEN <<>>
    ELSE IF Head(cs).op = "Stop" THEN Tail(cs)
    ELSE AfterStop(Tail(cs))

\* loop { match command_rx.try_recv() ... }: every pending command, then
\* either leave (Stop) or go on to read_packet
DDemuxCommands ==
    /\ demux.pc = "d_top"
    /\ LET r == RunCommands(cmds, demux.rpos) IN
        /\ demux' = IF r[2]
                    THEN Exited("stop")
                    ELSE [demux EXCEPT !.pc = "d_read", !.rpos = r[1]]
        /\ cmds' = AfterStop(cmds)
    /\ UNCHANGED <<state, path, running, first_audio, need_flush, is_network,
                   seek_position, clock, audio_output, handles, dt_tx,
                   vpq, apq, spq, vdec, adec, sdec, vfq, afq, sfq, ctl, budget, obs, media,
                   audio_buffer, current_frame_pts,
                   external_subtitle_frames, call, locks, stream_manager, sink>>

\* demuxer.read_packet() = Ok(Some(p)): a video or audio packet is sent next,
\* any other is ignored
DDemuxRead ==
    /\ demux.pc = "d_read" /\ demux.rpos <= Len(media)
    /\ demux' = [demux EXCEPT
                    !.pc = IF media[demux.rpos].k = "S" THEN "d_top" ELSE "d_send",
                    !.pkt = demux.rpos, !.rpos = @ + 1]
    /\ UNCHANGED <<state, path, running, first_audio, need_flush, is_network,
                   seek_position, clock, audio_output, handles, dt_tx, cmds,
                   vpq, apq, spq, vdec, adec, sdec, vfq, afq, sfq, ctl, budget, obs, media,
                   audio_buffer, current_frame_pts,
                   external_subtitle_frames, call, locks, stream_manager, sink>>

\* demuxer.read_packet() = Ok(None): sleep 100 ms and continue
DDemuxEof ==
    /\ demux.pc = "d_read" /\ demux.rpos > Len(media)
    /\ demux' = [demux EXCEPT !.pc = "d_top"]
    /\ UNCHANGED <<state, path, running, first_audio, need_flush, is_network,
                   seek_position, clock, audio_output, handles, dt_tx, cmds,
                   vpq, apq, spq, vdec, adec, sdec, vfq, afq, sfq, ctl, budget, obs, media,
                   audio_buffer, current_frame_pts,
                   external_subtitle_frames, call, locks, stream_manager, sink>>

\* demuxer.read_packet() = Err(e): break
DDemuxErr ==
    /\ demux.pc = "d_read"
    /\ demux' = Exited("err")
    /\ UNCHANGED <<state, path, running, first_audio, need_flush, is_network,
                   seek_position, clock, audio_output, handles, dt_tx, cmds,
                   vpq, apq, spq, vdec, adec, sdec, vfq, afq, sfq, ctl, budget, obs, media,
                   audio_buffer, current_frame_pts,
                   external_subtitle_frames, call, locks, stream_manager, sink>>

\* video_tx.send / audio_tx.send on the bounded channel: blocks while the
\* channel is full, fails once the decoder thread has dropped its receiver
DDemuxSend ==
    /\ demux.pc = "d_send"
    /\ LET p == media[demux.pkt]
           rxAlive == IF p.k = "V" THEN Alive(vdec) ELSE Alive(adec)
           q == IF p.k = "V" THEN vpq ELSE apq
           cap == IF p.k = "V" THEN VIDEO_CAPACITY ELSE AUDIO_CAPACITY
       IN  IF ~rxAlive
           THEN /\ demux' = Exited("send")
                /\ UNCHANGED <<vpq, apq>>
           ELSE /\ Len(q) < cap
                /\ vpq' = IF p.k = "V" THEN Append(vpq, p.pts) ELSE vpq
                /\ apq' = IF p.k = "A" THEN Append(apq, p.pts) ELSE apq
                /\ demux' = [demux EXCEPT !.pc = "d_top"]
    /\ UNCHANGED <<state, path, running, first_audio, need_flush, is_network,
                   seek_position, clock, audio_output, handles, dt_tx, cmds,
                   spq, vdec, adec, sdec, vfq, afq, sfq, ctl, budget, obs, media,
                   audio_buffer, current_frame_pts,
                   external_subtitle_frames, call, locks, stream_manager, sink>>

-----------------------------------------------------------------------------
(* Legacy decoder threads: start_playback_threads, manager.rs 1294-1575 *)

\* the frame-queue length above which the legacy video decoder sleeps and retries
MaxVideoFrames == IF is_network THEN NET_MAX_VIDEO_FRAMES ELSE LOCAL_MAX_FRAMES

LVideoStop ==
    /\ vdec.pc = "l_top" /\ ~running
    /\ vdec' = Returned
    /\ UNCHANGED <<state, path, running, first_audio, need_flush, is_network,
                   seek_position, clock, audio_output, handles, dt_tx, cmds, demux,
                   vpq, apq, spq, adec, sdec, vfq, afq, sfq, ctl, budget, obs, media,
                   audio_buffer, current_frame_pts,
                   external_subtitle_frames, call, locks, stream_manager, sink>>

\* queue below the limit: video_pq.pop() and decoder.decode(&packet)
LVideoPop ==
    /\ vdec.pc = "l_top" /\ running
    /\ Len(vfq) <= MaxVideoFrames
    /\ vpq # <<>>
    /\ vdec' = [vdec EXCEPT !.pc = "l_filter", !.frame = Head(vpq)]
    /\ vpq' = Tail(vpq)
    /\ UNCHANGED <<state, path, running, first_audio, need_flush, is_network,
                   seek_position, clock, audio_output, handles, dt_tx, cmds, demux,
                   apq, spq, adec, sdec, vfq, afq, sfq, ctl, budget, obs, media,
                   audio_buffer, current_frame_pts,
                   external_subtitle_frames, call, locks, stream_manager, sink>>

\* the seek filter under the seek_position lock
LVideoFilter ==
    /\ vdec.pc = "l_filter"
    /\ LET r == LegacyVideoFilter(seek_position, vdec.frame) IN
        /\ seek_position' = r[2]
        /\ vdec' = IF r[1] THEN [vdec EXCEPT !.pc = "l_top", !.frame = NoPts]
                           ELSE [vdec EXCEPT !.pc = "l_push"]
    /\ UNCHANGED <<state, path, running, first_audio, need_flush, is_network,
                   clock, audio_output, handles, dt_tx, cmds, demux,
                   vpq, apq, spq, adec, sdec, vfq, afq, sfq, ctl, budget, obs, media,
                   audio_buffer, current_frame_pts,
                   external_subtitle_frames, call, locks, stream_manager, sink>>

\* video_fq.push(frame)
LVideoPush ==
    /\ vdec.pc = "l_push"
    /\ vfq' = Append(vfq, vdec.frame)
    /\ vdec' = [vdec EXCEPT !.pc = "l_top", !.frame = NoPts]
    /\ UNCHANGED <<state, path, running, first_audio, need_flush, is_network,
                   seek_position, clock, audio_output, handles, dt_tx, cmds, demux,
                   vpq, apq, spq, adec, sdec, afq, sfq, ctl, budget, obs, media,
                   audio_buffer, current_frame_pts,
                   external_subtitle_frames, call, locks, stream_manager, sink>>

LAudioStop ==
    /\ adec.pc = "l_top" /\ ~running
    /\ adec' = Returned
    /\ UNCHANGED <<state, path, running, first_audio, need_flush, is_network,
                   seek_position, clock, audio_output, handles, dt_tx, cmds, demux,
                   vpq, apq, spq, vdec, sdec, vfq, afq, sfq, ctl, budget, obs, media,
                   audio_buffer, current_frame_pts,
                   external_subtitle_frames, call, locks, stream_manager, sink>>

\* audio_pq.pop() and decoder.decode(&packet)
LAudioPop ==
    /\ adec.pc = "l_top" /\ running
    /\ apq # <<>>
    /\ adec' = [adec EXCEPT !.pc = "l_filter", !.frame = Head(apq)]
    /\ apq' = Tail(apq)
    /\ UNCHANGED <<state, path, running, first_audio, need_flush, is_network,
                   seek_position, clock, audio_output, handles, dt_tx, cmds, demux,
                   vpq, spq, vdec, sdec, vfq, afq, sfq, ctl, budget, obs, media,
                   audio_buffer, current_frame_pts,
                   external_subtitle_frames, call, locks, stream_manager, sink>>

\* the seek filter under the seek_position lock: (should_skip, is_first_valid_frame)
LAudioFilter ==
    /\ adec.pc = "l_filter"
    /\ LET r == LegacyAudioFilter(seek_position, adec.frame) IN
        /\ seek_position' = r[3]
        /\ adec' = IF r[1] THEN [adec EXCEPT !.pc = "l_bp", !.frame = NoPts]
                           ELSE [adec EXCEPT !.pc = "l_cas", !.fv = r[2]]
    /\ UNCHANGED <<state, path, running, first_audio, need_flush, is_network,
                   clock, audio_output, handles, dt_tx, cmds, demux,
                   vpq, apq, spq, vdec, sdec, vfq, afq, sfq, ctl, budget, obs, media,
                   audio_buffer, current_frame_pts,
                   external_subtitle_frames, call, locks, stream_manager, sink>>

\* the clock baseline: after a seek only clear first_audio_flag, else
\* compare_exchange(true, false) and, when it succeeds, set_time(frame.pts)
LAudioBaseline ==
    /\ adec.pc = "l_cas"
    /\ first_audio' = FALSE
    /\ clock' = IF ~adec.fv /\ first_audio THEN ClockSetTime(clock, adec.frame) ELSE clock
    /\ adec' = [adec EXCEPT !.pc = "l_push", !.fv = FALSE]
    /\ UNCHANGED <<state, path, running, need_flush, is_network,
                   seek_position, audio_output, handles, dt_tx, cmds, demux,
                   vpq, apq, spq, vdec, sdec, vfq, afq, sfq, ctl, budget, obs, media,
                   audio_buffer, current_frame_pts,
                   external_subtitle_frames, call, locks, stream_manager, sink>>

\* audio_fq.push(frame.clone())
LAudioPush ==
    /\ adec.pc = "l_push"
    /\ afq' = Append(afq, adec.frame)
    /\ adec' = [adec EXCEPT !.pc = "l_bp", !.frame = NoPts]
    /\ UNCHANGED <<state, path, running, first_audio, need_flush, is_network,
                   seek_position, clock, audio_output, handles, dt_tx, cmds, demux,
                   vpq, apq, spq, vdec, sdec, vfq, sfq, ctl, budget, obs, media,
                   audio_buffer, current_frame_pts,
                   external_subtitle_frames, call, locks, stream_manager, sink>>

\* frame queue control after the packet: a local file only sleeps (15 ms above
\* LOCAL_MAX_AUDIO_FRAMES, 5 ms above the high water mark) and goes on; a
\* network source waits while the queue is above max_audio_frames
LAudioQueueControl ==
    /\ adec.pc = "l_bp"
    /\ is_network => ~(Len(afq) > NET_MAX_AUDIO_FRAMES /\ running)
    /\ adec' = [adec EXCEPT !.pc = "l_top"]
    /\ UNCHANGED <<state, path, running, first_audio, need_flush, is_network,
                   seek_position, clock, audio_output, handles, dt_tx, cmds, demux,
                   vpq, apq, spq, vdec, sdec, vfq, afq, sfq, ctl, budget, obs, media,
                   audio_buffer, current_frame_pts,
                   external_subtitle_frames, call, locks, stream_manager, sink>>

LSubStop ==
    /\ sdec.pc = "l_top" /\ ~running
    /\ sdec' = Returned
    /\ UNCHANGED <<state, path, running, first_audio, need_flush, is_network,
                   seek_position, clock, audio_output, handles, dt_tx, cmds, demux,
                   vpq, apq, spq, vdec, adec, vfq, afq, sfq, ctl, budget, obs, media,
                   audio_buffer, current_frame_pts,
                   external_subtitle_frames, call, locks, stream_manager, sink>>

\* subtitle_pq.pop() and decoder.decode(&packet)
LSubPop ==
    /\ sdec.pc = "l_top" /\ running
    /\ spq # <<>>
    /\ sdec' = [sdec EXCEPT !.pc = "l_push", !.frame = Head(spq)]
    /\ spq' = Tail(spq)
    /\ UNCHANGED <<state, path, running, first_audio, need_flush, is_network,
                   seek_position, clock, audio_output, handles, dt_tx, cmds, demux,
                   vpq, apq, vdec, adec, vfq, afq, sfq, ctl, budget, obs, media,
                   audio_buffer, current_frame_pts,
                   external_subtitle_frames, call, locks, stream_manager, sink>>

\* subtitle_fq.push(frame.clone())
LSubPush ==
    /\ sdec.pc = "l_push"
    /\ sfq' = Append(sfq, sdec.frame)
    /\ sdec' = [sdec EXCEPT !.pc = "l_top", !.frame = NoPts]
    /\ UNCHANGED <<state, path, running, first_audio, need_flush, is_network,
                   seek_position, clock, audio_output, handles, dt_tx, cmds, demux,
                   vpq, apq, spq, vdec, adec, vfq, afq, ctl, budget, obs, media,
                   audio_buffer, current_frame_pts,
                   external_subtitle_frames, call, locks, stream_manager, sink>>

-----------------------------------------------------------------------------
(* DemuxerThread-mode decoder threads:                                      *)
(* start_playback_threads_with_demuxer_thread, manager.rs 1624-1869         *)

\* every Sender of a packet channel is gone: the demuxer thread's (dropped
\* when demux_loop returns) and the clone DemuxerThread keeps until stop()
Disconnected == ~Alive(demux) /\ ~dt_tx

\* where a decoder goes after its frame loop: inside the post-seek window
\* straight on; at or above the hard limit into the backoff wait
AfterFrames(recent, len, hard) ==
    IF ~recent /\ len >= hard THEN "d_bp" ELSE "d_top"

\* loop head: running, then need_flush.compare_exchange(true, false) and flush
DVideoTop ==
    /\ vdec.pc = "d_top"
    /\ IF ~running
       THEN vdec' = Returned /\ UNCHANGED need_flush
       ELSE /\ vdec' = [vdec EXCEPT !.pc = "d_hard",
                                     !.recent = IF need_flush THEN TRUE ELSE @]
            /\ need_flush' = FALSE
    /\ UNCHANGED <<state, path, running, first_audio, is_network,
                   seek_position, clock, audio_output, handles, dt_tx, cmds, demux,
                   vpq, apq, spq, adec, sdec, vfq, afq, sfq, ctl, budget, obs, media,
                   audio_buffer, current_frame_pts,
                   external_subtitle_frames, call, locks, stream_manager, sink>>

\* while running && video_fq.len() >= VIDEO_QUEUE_HARD_LIMIT { sleep }
DVideoHardWait ==
    /\ vdec.pc = "d_hard"
    /\ ~(running /\ Len(vfq) >= VIDEO_QUEUE_HARD_LIMIT)
    /\ vdec' = [vdec EXCEPT !.pc = "d_recv"]
    /\ UNCHANGED <<state, path, running, first_audio, need_flush, is_network,
                   seek_position, clock, audio_output, handles, dt_tx, cmds, demux,
                   vpq, apq, spq, adec, sdec, vfq, afq, sfq, ctl, budget, obs, media,
                   audio_buffer, current_frame_pts,
                   external_subtitle_frames, call, locks, stream_manager, sink>>

\* video_rx.recv(): a packet (decoded at once), or Err once the channel is
\* empty and disconnected
DVideoRecv ==
    /\ vdec.pc = "d_recv"
    /\ IF vpq # <<>>
       THEN /\ vdec' = [vdec EXCEPT !.pc = "d_filter", !.frame = Head(vpq)]
            /\ vpq' = Tail(vpq)
       ELSE /\ Disconnected
            /\ vdec' = Returned
            /\ UNCHANGED vpq
    /\ UNCHANGED <<state, path, running, first_audio, need_flush, is_network,
                   seek_position, clock, audio_output, handles, dt_tx, cmds, demux,
                   apq, spq, adec, sdec, vfq, afq, sfq, ctl, budget, obs, media,
                   audio_buffer, current_frame_pts,
                   external_subtitle_frames, call, locks, stream_manager, sink>>

\* the seek filter under the seek_position lock
DVideoFilter ==
    /\ vdec.pc = "d_filter"
    /\ vdec' = IF DtFilter(seek_position, vdec.frame, VIDEO_TOLERANCE)
               THEN [vdec EXCEPT !.frame = NoPts,
                        !.pc = AfterFrames(vdec.recent, Len(vfq), VIDEO_QUEUE_HARD_LIMIT)]
               ELSE [vdec EXCEPT !.pc = "d_push"]
    /\ UNCHANGED <<state, path, running, first_audio, need_flush, is_network,
                   seek_position, clock, audio_output, handles, dt_tx, cmds, demux,
                   vpq, apq, spq, adec, sdec, vfq, afq, sfq, ctl, budget, obs, media,
                   audio_buffer, current_frame_pts,
                   external_subtitle_frames, call, locks, stream_manager, sink>>

\* video_fq.push(frame), then the queue size control
DVideoPush ==
    /\ vdec.pc = "d_push"
    /\ vfq' = Append(vfq, vdec.frame)
    /\ vdec' = [vdec EXCEPT !.frame = NoPts,
                   !.pc = AfterFrames(vdec.recent, Len(vfq) + 1, VIDEO_QUEUE_HARD_LIMIT)]
    /\ UNCHANGED <<state, path, running, first_audio, need_flush, is_network,
                   seek_position, clock, audio_output, handles, dt_tx, cmds, demux,
                   vpq, apq, spq, adec, sdec, afq, sfq, ctl, budget, obs, media,
                   audio_buffer, current_frame_pts,
                   external_subtitle_frames, call, locks, stream_manager, sink>>

\* while running && video_fq.len() >= VIDEO_QUEUE_SOFT_LIMIT { sleep(backoff) }
DVideoBackoff ==
    /\ vdec.pc = "d_bp"
    /\ ~(running /\ Len(vfq) >= VIDEO_QUEUE_SOFT_LIMIT)
    /\ vdec' = [vdec EXCEPT !.pc = "d_top"]
    /\ UNCHANGED <<state, path, running, first_audio, need_flush, is_network,
                   seek_position, clock, audio_output, handles, dt_tx, cmds, demux,
                   vpq, apq, spq, adec, sdec, vfq, afq, sfq, ctl, budget, obs, media,
                   audio_buffer, current_frame_pts,
                   external_subtitle_frames, call, locks, stream_manager, sink>>

DAudioTop ==
    /\ adec.pc = "d_top"
    /\ IF ~running
       THEN adec' = Returned /\ UNCHANGED need_flush
       ELSE /\ adec' = [adec EXCEPT !.pc = "d_hard",
                                     !.recent = IF need_flush THEN TRUE ELSE @]
            /\ need_flush' = FALSE
    /\ UNCHANGED <<state, path, running, first_audio, is_network,
                   seek_position, clock, audio_output, handles, dt_tx, cmds, demux,
                   vpq, apq, spq, vdec, sdec, vfq, afq, sfq, ctl, budget, obs, media,
                   audio_buffer, current_frame_pts,
                   external_subtitle_frames, call, locks, stream_manager, sink>>

\* while running && audio_fq.len() >= AUDIO_QUEUE_HARD_LIMIT { sleep }
DAudioHardWait ==
    /\ adec.pc = "d_hard"
    /\ ~(running /\ Len(afq) >= AUDIO_QUEUE_HARD_LIMIT)
    /\ adec' = [adec EXCEPT !.pc = "d_recv"]
    /\ UNCHANGED <<state, path, running, first_audio, need_flush, is_network,
                   seek_position, clock, audio_output, handles, dt_tx, cmds, demux,
                   vpq, apq, spq, vdec, sdec, vfq, afq, sfq, ctl, budget, obs, media,
                   audio_buffer, current_frame_pts,
                   external_subtitle_frames, call, locks, stream_manager, sink>>

\* audio_rx.recv()
DAudioRecv ==
    /\ adec.pc = "d_recv"
    /\ IF apq # <<>>
       THEN /\ adec' = [adec EXCEPT !.pc = "d_filter", !.frame = Head(apq)]
            /\ apq' = Tail(apq)
       ELSE /\ Disconnected
            /\ adec' = Returned
            /\ UNCHANGED apq
    /\ UNCHANGED <<state, path, running, first_audio, need_flush, is_network,
                   seek_position, clock, audio_output, handles, dt_tx, cmds, demux,
                   vpq, spq, vdec, sdec, vfq, afq, sfq, ctl, budget, obs, media,
                   audio_buffer, current_frame_pts,
                   external_subtitle_frames, call, locks, stream_manager, sink>>

\* the seek filter under the seek_position lock
DAudioFilter ==
    /\ adec.pc = "d_filter"
    /\ adec' = IF DtFilter(seek_position, adec.frame, AUDIO_TOLERANCE)
               THEN [adec EXCEPT !.frame = NoPts,
                        !.pc = AfterFrames(adec.recent, Len(afq), AUDIO_QUEUE_HARD_LIMIT)]
               ELSE [adec EXCEPT !.pc = "d_cas"]
    /\ UNCHANGED <<state, path, running, first_audio, need_flush, is_network,
                   seek_position, clock, audio_output, handles, dt_tx, cmds, demux,
                   vpq, apq, spq, vdec, sdec, vfq, afq, sfq, ctl, budget, obs, media,
                   audio_buffer, current_frame_pts,
                   external_subtitle_frames, call, locks, stream_manager, sink>>

\* first_audio_flag.compare_exchange(true, false) and, when it succeeds,
\* audio_clock.set_time(frame.pts)
DAudioBaseline ==
    /\ adec.pc = "d_cas"
    /\ first_audio' = FALSE
    /\ clock' = IF first_audio THEN ClockSetTime(clock, adec.frame) ELSE clock
    /\ adec' = [adec EXCEPT !.pc = "d_push"]
    /\ UNCHANGED <<state, path, running, need_flush, is_network,
                   seek_position, audio_output, handles, dt_tx, cmds, demux,
                   vpq, apq, spq, vdec, sdec, vfq, afq, sfq, ctl, budget, obs, media,
                   audio_buffer, current_frame_pts,
                   external_subtitle_frames, call, locks, stream_manager, sink>>

\* audio_fq.push(frame), then the queue size control
DAudioPush ==
    /\ adec.pc = "d_push"
    /\ afq' = Append(afq, adec.frame)
    /\ adec' = [adec EXCEPT !.frame = NoPts,
                   !.pc = AfterFrames(adec.recent, Len(afq) + 1, AUDIO_QUEUE_HARD_LIMIT)]
    /\ UNCHANGED <<state, path, running, first_audio, need_flush, is_network,
                   seek_position, clock, audio_output, handles, dt_tx, cmds, demux,
                   vpq, apq, spq, vdec, sdec, vfq, sfq, ctl, budget, obs, media,
                   audio_buffer, current_frame_pts,
                   external_subtitle_frames, call, locks, stream_manager, sink>>

\* while running && audio_fq.len() >= AUDIO_QUEUE_SOFT_LIMIT { sleep(backoff) }
DAudioBackoff ==
    /\ adec.pc = "d_bp"
    /\ ~(running /\ Len(afq) >= AUDIO_QUEUE_SOFT_LIMIT)
    /\ adec' = [adec EXCEPT !.pc = "d_top"]
    /\ UNCHANGED <<state, path, running, first_audio, need_flush, is_network,
                   seek_position, clock, audio_output, handles, dt_tx, cmds, demux,
                   vpq, apq, spq, vdec, sdec, vfq, afq, sfq, ctl, budget, obs, media,
                   audio_buffer, current_frame_pts,
                   external_subtitle_frames, call, locks, stream_manager, sink>>

-----------------------------------------------------------------------------
(* PlaybackManager::stop, manager.rs 722-817, and DemuxerThread::stop *)

\* a handle that is dropped instead of joined: nothing to wait for
JoinNoWait(th) == TRUE

\* thread.join() returns: the thread has returned from its closure
JoinReady(th) == ~Alive(th)

\* a joined thread is gone
Joined(th) == IF Alive(th) THEN th ELSE NoThread
JoinedDemux(d) == IF Alive(d) THEN d ELSE [NoDemux EXCEPT !.exit = d.exit]

\* self.running.store(false)
StopFlag ==
    /\ ctl.pc = "stop_flag"
    /\ running' = FALSE
    /\ ctl' = [ctl EXCEPT !.pc = "stop_dt",
                          !.live = Alive(demux) \/ Alive(vdec) \/ Alive(adec) \/ Alive(sdec)]
    /\ UNCHANGED <<state, path, first_audio, need_flush, is_network,
                   seek_position, clock, audio_output, handles, dt_tx, cmds, demux,
                   vpq, apq, spq, vdec, adec, sdec, vfq, afq, sfq, budget, obs, media,
                   audio_buffer, current_frame_pts,
                   external_subtitle_frames, call, locks, stream_manager, sink>>

\* DemuxerThread::stop without the two take() calls: the retained sender
\* clones stay in the struct
StopKeepsSenders ==
    /\ ctl.pc = "stop_dt"
    /\ cmds' = IF handles.dt /\ Alive(demux)
               THEN Append(cmds, [op |-> "Stop", t |-> 0]) ELSE cmds
    /\ ctl' = [ctl EXCEPT !.pc = "stop_dt_join"]
    /\ UNCHANGED <<state, path, running, first_audio, need_flush, is_network,
                   seek_position, clock, audio_output, handles, dt_tx, demux,
                   vpq, apq, spq, vdec, adec, sdec, vfq, afq, sfq, budget, obs, media,
                   audio_buffer, current_frame_pts,
                   external_subtitle_frames, call, locks, stream_manager, sink>>

\* demuxer_thread_handle.take() and DemuxerThread::stop up to the join:
\* command_tx.send(Stop), video_packet_tx.take(), audio_packet_tx.take()
StopDemuxerThread ==
    /\ ctl.pc = "stop_dt"
    /\ IF handles.dt
       THEN /\ cmds' = IF Alive(demux) THEN Append(cmds, [op |-> "Stop", t |-> 0]) ELSE cmds
            /\ dt_tx' = FALSE
       ELSE UNCHANGED <<cmds, dt_tx>>
    /\ ctl' = [ctl EXCEPT !.pc = "stop_dt_join"]
    /\ UNCHANGED <<state, path, running, first_audio, need_flush, is_network,
                   seek_position, clock, audio_output, handles, demux,
                   vpq, apq, spq, vdec, adec, sdec, vfq, afq, sfq, budget, obs, media,
                   audio_buffer, current_frame_pts,
                   external_subtitle_frames, call, locks, stream_manager, sink>>

\* DemuxerThread::stop: thread_handle.take() and handle.join()
StopJoinDemuxerThread ==
    /\ ctl.pc = "stop_dt_join"
    /\ IF handles.dt
       THEN /\ JoinReady(demux)
            /\ demux' = JoinedDemux(demux)
            /\ handles' = [handles EXCEPT !.dt = FALSE]
            /\ cmds' = <<>>
       ELSE UNCHANGED <<demux, handles, cmds>>
    /\ ctl' = [ctl EXCEPT !.pc = "stop_demux"]
    /\ UNCHANGED <<state, path, running, first_audio, need_flush, is_network,
                   seek_position, clock, audio_output, dt_tx,
                   vpq, apq, spq, vdec, adec, sdec, vfq, afq, sfq, budget, obs, media,
                   audio_buffer, current_frame_pts,
                   external_subtitle_frames, call, locks, stream_manager, sink>>

\* demux_thread.take() and join
StopJoinDemux ==
    /\ ctl.pc = "stop_demux"
    /\ IF handles.demux
       THEN /\ JoinReady(demux)
            /\ demux' = JoinedDemux(demux)
            /\ handles' = [handles EXCEPT !.demux = FALSE]
       ELSE UNCHANGED <<demux, handles>>
    /\ ctl' = [ctl EXCEPT !.pc = "stop_video"]
    /\ UNCHANGED <<state, path, running, first_audio, need_flush, is_network,
                   seek_position, clock, audio_output, dt_tx, cmds,
                   vpq, apq, spq, vdec, adec, sdec, vfq, afq, sfq, budget, obs, media,
                   audio_buffer, current_frame_pts,
                   external_subtitle_frames, call, locks, stream_manager, sink>>

\* video_decode_thread.take() and join
StopJoinVideo ==
    /\ ctl.pc = "stop_video"
    /\ IF handles.video
       THEN /\ JoinReady(vdec)
            /\ vdec' = Joined(vdec)
            /\ handles' = [handles EXCEPT !.video = FALSE]
       ELSE UNCHANGED <<vdec, handles>>
    /\ ctl' = [ctl EXCEPT !.pc = "stop_audio"]
    /\ UNCHANGED <<state, path, running, first_audio, need_flush, is_network,
                   seek_position, clock, audio_output, dt_tx, cmds, demux,
                   vpq, apq, spq, adec, sdec, vfq, afq, sfq, budget, obs, media,
                   audio_buffer, current_frame_pts,
                   external_subtitle_frames, call, locks, stream_manager, sink>>

\* audio_decode_thread.take() and join
StopJoinAudio ==
    /\ ctl.pc = "stop_audio"
    /\ IF handles.audio
       THEN /\ JoinReady(adec)
            /\ adec' = Joined(adec)
            /\ handles' = [handles EXCEPT !.audio = FALSE]
       ELSE UNCHANGED <<adec, handles>>
    /\ ctl' = [ctl EXCEPT !.pc = "stop_sub"]
    /\ UNCHANGED <<state, path, running, first_audio, need_flush, is_network,
                   seek_position, clock, audio_output, dt_tx, cmds, demux,
                   vpq, apq, spq, vdec, sdec, vfq, afq, sfq, budget, obs, media,
                   audio_buffer, current_frame_pts,
                   external_subtitle_frames, call, locks, stream_manager, sink>>

\* subtitle_decode_thread.take() and join
StopJoinSub ==
    /\ ctl.pc = "stop_sub"
    /\ IF handles.sub
       THEN /\ JoinReady(sdec)
            /\ sdec' = Joined(sdec)
            /\ handles' = [handles EXCEPT !.sub = FALSE]
       ELSE UNCHANGED <<sdec, handles>>
    /\ ctl' = [ctl EXCEPT !.pc = "stop_drain"]
    /\ UNCHANGED <<state, path, running, first_audio, need_flush, is_network,
                   seek_position, clock, audio_output, dt_tx, cmds, demux,
                   vpq, apq, spq, vdec, adec, vfq, afq, sfq, budget, obs, media,
                   audio_buffer, current_frame_pts,
                   external_subtitle_frames, call, locks, stream_manager, sink>>

\* audio_output.take(), then the three `while queue.pop().is_some()` loops
StopDrain ==
    /\ ctl.pc = "stop_drain"
    /\ audio_output' = FALSE
    /\ afq' = <<>> /\ vfq' = <<>> /\ sfq' = <<>>
    /\ ctl' = [ctl EXCEPT !.pc = "stop_reset"]
    /\ audio_buffer' = FALSE
    /\ UNCHANGED <<state, path, running, first_audio, need_flush, is_network,
                   seek_position, clock, handles, dt_tx, cmds, demux,
                   vpq, apq, spq, vdec, adec, sdec, budget, obs, media, current_frame_pts,
                   external_subtitle_frames, call, locks, stream_manager, sink>>

\* clock.set_time(0), seek_tx = None, need_flush_decoders = false,
\* state = Stopped, position = 0
StopReset ==
    /\ ctl.pc = "stop_reset"
    /\ clock' = ClockSetTime(clock, 0)
    /\ cmds' = <<>>
    /\ need_flush' = FALSE
    /\ state' = "Stopped"
    /\ obs' = [obs EXCEPT !.issued = NoPts, !.firstV = FALSE, !.firstA = FALSE]
    /\ ctl' = [ctl EXCEPT !.pc = "stop_ret"]
    /\ UNCHANGED <<path, running, first_audio, is_network,
                   seek_position, audio_output, handles, dt_tx, demux,
                   vpq, apq, spq, vdec, adec, sdec, vfq, afq, sfq, budget, media,
                   audio_buffer, current_frame_pts,
                   external_subtitle_frames, call, locks, stream_manager, sink>>

\* stop() has returned: to the user, or into the open that called it
StopReturn ==
    /\ ctl.pc = "stop_ret"
    /\ ctl' = IF ctl.ret = "idle" THEN Idle ELSE [ctl EXCEPT !.pc = "open_init"]
    /\ UNCHANGED <<state, path, running, first_audio, need_flush, is_network,
                   seek_position, clock, audio_output, handles, dt_tx, cmds, demux,
                   vpq, apq, spq, vdec, adec, sdec, vfq, afq, sfq, budget, obs, media,
                   audio_buffer, current_frame_pts,
                   external_subtitle_frames, call, locks, stream_manager, sink>>

-----------------------------------------------------------------------------
(* open / open_stream / attach_demuxer / attach_demuxer_async, after stop() *)

\* whether the entry point uses DemuxerThread
UsesDemuxerThread(e) == e = "attach_async"

\* the flags every entry point resets, state = Opening, and (open and
\* open_stream only) current_file_path = Some(path); a source is named by the
\* entry point the user gave it to, and play() hands open() the saved path
OpenInit ==
    /\ ctl.pc = "open_init"
    /\ \E net \in BOOLEAN :
        /\ ctl.op = "open" => ~net
        /\ ctl.op \in {"open_stream", "attach_async"} => net
        /\ is_network' = net
    /\ first_audio' = TRUE
    /\ seek_position' = NoSeek
    /\ state' = "Opening"
    /\ path' = IF ctl.ret = "play" THEN path
               ELSE IF ctl.op \in {"open", "open_stream"} THEN ctl.op ELSE path
    /\ ctl' = [ctl EXCEPT !.pc = "open_probe"]
    /\ UNCHANGED <<running, need_flush, clock, audio_output, handles, dt_tx,
                   cmds, demux, vpq, apq, spq, vdec, adec, sdec, vfq, afq, sfq, budget, obs, media,
                   audio_buffer, current_frame_pts,
                   external_subtitle_frames, call, locks, stream_manager, sink>>

\* open / open_stream: Demuxer::open(path)? (and connect()?), then
\* state = Paused; attach_*: the demuxer is given, nothing to probe
OpenProbe ==
    /\ ctl.pc = "open_probe"
    /\ \E ok \in BOOLEAN :
        IF ctl.op \in {"open", "open_stream"}
        THEN IF ok
             THEN state' = "Paused" /\ ctl' = [ctl EXCEPT !.pc = "open_spawn"]
             ELSE state' = state /\ ctl' = Idle
        ELSE ok /\ state' = state /\ ctl' = [ctl EXCEPT !.pc = "open_spawn"]
    /\ UNCHANGED <<path, running, first_audio, need_flush, is_network,
                   seek_position, clock, audio_output, handles, dt_tx, cmds, demux,
                   vpq, apq, spq, vdec, adec, sdec, vfq, afq, sfq, budget, obs, media,
                   audio_buffer, current_frame_pts,
                   external_subtitle_frames, call, locks, stream_manager, sink>>

\* the threads whose handle would be overwritten, or that would still run,
\* when the entry point e spawns its workers
Overwritten(e) ==
    {k \in {"demux", "dt", "video", "audio", "sub"} :
        /\ k = "sub" => ~UsesDemuxerThread(e)
        /\ k = "demux" => ~UsesDemuxerThread(e)
        /\ k = "dt" => UsesDemuxerThread(e)
        /\ \/ handles[k]
           \/ k \in {"demux", "dt"} /\ Alive(demux)
           \/ k = "video" /\ Alive(vdec)
           \/ k = "audio" /\ Alive(adec)
           \/ k = "sub" /\ Alive(sdec)}

\* where the entry point goes on after its workers run
AfterSpawn(c) ==
    IF c.op = "attach" THEN [c EXCEPT !.pc = "attach_paused"]
    ELSE IF c.op = "attach_async" THEN [c EXCEPT !.pc = "buffering"]
    ELSE IF c.ret = "play" THEN [c EXCEPT !.pc = "play_fin"]
    ELSE Idle

\* decoder construction failed (`?`): the entry point returns Err; the audio
\* output is already in place when it is the audio decoder that failed
OpenDecoderFails ==
    /\ ctl.pc = "open_spawn"
    /\ \E audioOut \in BOOLEAN : audio_output' = audioOut
    /\ ctl' = Idle
    /\ audio_buffer' = FALSE
    /\ UNCHANGED <<state, path, running, first_audio, need_flush, is_network,
                   seek_position, clock, handles, dt_tx, cmds, demux,
                   vpq, apq, spq, vdec, adec, sdec, vfq, afq, sfq, budget, obs, media, current_frame_pts,
                   external_subtitle_frames, call, locks, stream_manager, sink>>

\* start_playback_threads: running = true, new packet queues and seek channel,
\* the demux thread and the three decoder threads
SpawnLegacy ==
    /\ ctl.pc = "open_spawn" /\ ~UsesDemuxerThread(ctl.op)
    /\ audio_output' = TRUE
    /\ running' = TRUE
    /\ cmds' = <<>>
    /\ vpq' = <<>> /\ apq' = <<>> /\ spq' = <<>>
    /\ obs' = [obs EXCEPT !.orphans = @ \cup Overwritten(ctl.op),
                          !.source = IF ctl.ret = "play" THEN path ELSE ctl.op]
    /\ demux' = [NoDemux EXCEPT !.pc = "l_top"]
    /\ vdec' = [NoThread EXCEPT !.pc = "l_top"]
    /\ adec' = [NoThread EXCEPT !.pc = "l_top"]
    /\ sdec' = [NoThread EXCEPT !.pc = "l_top"]
    /\ handles' = [handles EXCEPT !.demux = TRUE, !.video = TRUE,
                                  !.audio = TRUE, !.sub = TRUE]
    /\ ctl' = AfterSpawn(ctl)
    /\ audio_buffer' = FALSE
    /\ UNCHANGED <<state, path, first_audio, need_flush, is_network,
                   seek_position, clock, dt_tx, vfq, afq, sfq, budget, media, current_frame_pts,
                   external_subtitle_frames, call, locks, stream_manager, sink>>

\* DemuxerThread::start and start_playback_threads_with_demuxer_thread:
\* the bounded channels, the demuxer thread, running = true, the video and
\* audio decoder threads (no subtitle thread in this mode)
SpawnDemuxerThread ==
    /\ ctl.pc = "open_spawn" /\ UsesDemuxerThread(ctl.op)
    /\ audio_output' = TRUE
    /\ running' = TRUE
    /\ cmds' = <<>>
    /\ vpq' = <<>> /\ apq' = <<>>
    /\ dt_tx' = TRUE
    /\ obs' = [obs EXCEPT !.orphans = @ \cup Overwritten(ctl.op),
                          !.source = IF ctl.ret = "play" THEN path ELSE ctl.op]
    /\ demux' = [NoDemux EXCEPT !.pc = "d_top"]
    /\ vdec' = [NoThread EXCEPT !.pc = "d_top"]
    /\ adec' = [NoThread EXCEPT !.pc = "d_top"]
    /\ handles' = [handles EXCEPT !.dt = TRUE, !.video = TRUE, !.audio = TRUE]
    /\ ctl' = AfterSpawn(ctl)
    /\ audio_buffer' = FALSE
    /\ UNCHANGED <<state, path, first_audio, need_flush, is_network,
                   seek_position, clock, spq, sdec, vfq, afq, sfq, budget, media, current_frame_pts,
                   external_subtitle_frames, call, locks, stream_manager, sink>>

\* attach_demuxer: state = Paused
AttachPaused ==
    /\ ctl.pc = "attach_paused"
    /\ state' = "Paused"
    /\ ctl' = Idle
    /\ UNCHANGED <<path, running, first_audio, need_flush, is_network,
                   seek_position, clock, audio_output, handles, dt_tx, cmds, demux,
                   vpq, apq, spq, vdec, adec, sdec, vfq, afq, sfq, budget, obs, media,
                   audio_buffer, current_frame_pts,
                   external_subtitle_frames, call, locks, stream_manager, sink>>

\* attach_demuxer_async: state = Buffering, start = Instant::now()
Buffering ==
    /\ ctl.pc = "buffering"
    /\ state' = "Buffering"
    /\ ctl' = [ctl EXCEPT !.pc = "buffer_wait", !.t = 0]
    /\ UNCHANGED <<path, running, first_audio, need_flush, is_network,
                   seek_position, clock, audio_output, handles, dt_tx, cmds, demux,
                   vpq, apq, spq, vdec, adec, sdec, vfq, afq, sfq, budget, obs, media,
                   audio_buffer, current_frame_pts,
                   external_subtitle_frames, call, locks, stream_manager, sink>>

\* whether the DemuxerThread handle still owns its two receivers:
\* start_playback_threads_with_demuxer_thread saves the handle and at once
\* moves both out with take_receivers(), leaving None in the handle
ReceiversInHandle == FALSE

\* demux_thread.video_packet_queue.as_ref().map(|r| r.len()).unwrap_or(0)
PolledLen(q) == IF ReceiversInHandle THEN Len(q) ELSE 0

\* one round of the buffering loop before the timeout: read both lengths
\* through the handle, break when both reach their target, else sleep 20 ms
BufferPoll ==
    /\ ctl.pc = "buffer_wait" /\ ctl.t < BUFFER_TIMEOUT_POLLS
    /\ ctl' = IF /\ handles.dt
                 /\ PolledLen(vpq) >= TARGET_VIDEO_PACKETS
                 /\ PolledLen(apq) >= TARGET_AUDIO_PACKETS
              THEN [ctl EXCEPT !.pc = "buffer_done"]
              ELSE [ctl EXCEPT !.t = @ + 1]
    /\ UNCHANGED <<state, path, running, first_audio, need_flush, is_network,
                   seek_position, clock, audio_output, handles, dt_tx, cmds, demux,
                   vpq, apq, spq, vdec, adec, sdec, vfq, afq, sfq, budget, obs, media,
                   audio_buffer, current_frame_pts,
                   external_subtitle_frames, call, locks, stream_manager, sink>>

\* attach_demuxer_async: the buffering loop has ended, by break or because
\* start.elapsed() reached BUFFER_TIMEOUT_MS; state = Paused
BufferingEnds ==
    /\ \/ ctl.pc = "buffer_done"
       \/ ctl.pc = "buffer_wait" /\ ctl.t >= BUFFER_TIMEOUT_POLLS
    /\ state' = "Paused"
    /\ ctl' = Idle
    /\ UNCHANGED <<path, running, first_audio, need_flush, is_network,
                   seek_position, clock, audio_output, handles, dt_tx, cmds, demux,
                   vpq, apq, spq, vdec, adec, sdec, vfq, afq, sfq, budget, obs, media,
                   audio_buffer, current_frame_pts,
                   external_subtitle_frames, call, locks, stream_manager, sink>>

-----------------------------------------------------------------------------
(* The user's calls *)

\* an entry point that would not begin with self.stop()
CallOpenNoStop(E) ==
    /\ ctl.pc = "idle" /\ budget.opens > 0
    /\ \E e \in E : ctl' = [pc |-> "open_init", ret |-> "open", op |-> e, t |-> 0,
                             live |-> Alive(demux) \/ Alive(vdec) \/ Alive(adec) \/ Alive(sdec)]
    /\ budget' = [budget EXCEPT !.opens = @ - 1]
    /\ current_frame_pts' = NoPts
    /\ UNCHANGED <<state, path, running, first_audio, need_flush, is_network,
                   seek_position, clock, audio_output, handles, dt_tx, cmds, demux,
                   vpq, apq, spq, vdec, adec, sdec, vfq, afq, sfq, obs, media,
                   audio_buffer,
                   external_subtitle_frames, call, locks, stream_manager, sink>>

\* open(path), open_stream(url), attach_demuxer(d), attach_demuxer_async(d):
\* each starts with self.stop()
CallOpen(E) ==
    /\ ctl.pc = "idle" /\ budget.opens > 0
    /\ \E e \in E : ctl' = [pc |-> "stop_flag", ret |-> "open", op |-> e, t |-> 0, live |-> FALSE]
    /\ budget' = [budget EXCEPT !.opens = @ - 1]
    /\ current_frame_pts' = NoPts
    /\ UNCHANGED <<state, path, running, first_audio, need_flush, is_network,
                   seek_position, clock, audio_output, handles, dt_tx, cmds, demux,
                   vpq, apq, spq, vdec, adec, sdec, vfq, afq, sfq, obs, media,
                   audio_buffer,
                   external_subtitle_frames, call, locks, stream_manager, sink>>

\* stop()
CallStop ==
    /\ ctl.pc = "idle"
    /\ ctl' = [pc |-> "stop_flag", ret |-> "idle", op |-> "stop", t |-> 0, live |-> FALSE]
    /\ current_frame_pts' = NoPts
    /\ UNCHANGED <<state, path, running, first_audio, need_flush, is_network,
                   seek_position, clock, audio_output, handles, dt_tx, cmds, demux,
                   vpq, apq, spq, vdec, adec, sdec, vfq, afq, sfq, budget, obs, media,
                   audio_buffer,
                   external_subtitle_frames, call, locks, stream_manager, sink>>

\* play() in Stopped with a saved path: open_file(&path)? first
CallPlayReopen ==
    /\ ctl.pc = "idle" /\ budget.opens > 0
    /\ state = "Stopped" /\ path # "none"
    /\ ctl' = [pc |-> "stop_flag", ret |-> "play", op |-> "open", t |-> 0, live |-> FALSE]
    /\ budget' = [budget EXCEPT !.opens = @ - 1]
    /\ UNCHANGED <<state, path, running, first_audio, need_flush, is_network,
                   seek_position, clock, audio_output, handles, dt_tx, cmds, demux,
                   vpq, apq, spq, vdec, adec, sdec, vfq, afq, sfq, obs, media,
                   audio_buffer, current_frame_pts,
                   external_subtitle_frames, call, locks, stream_manager, sink>>

\* play() in any state but Stopped, and the tail of play() after the re-open:
\* clock.play(), state = Playing
PlayNow ==
    /\ \/ ctl.pc = "idle" /\ state # "Stopped"
       \/ ctl.pc = "play_fin"
    /\ clock' = ClockPlay(clock)
    /\ state' = "Playing"
    /\ ctl' = Idle
    /\ UNCHANGED <<path, running, first_audio, need_flush, is_network,
                   seek_position, audio_output, handles, dt_tx, cmds, demux,
                   vpq, apq, spq, vdec, adec, sdec, vfq, afq, sfq, budget, obs, media,
                   audio_buffer, current_frame_pts,
                   external_subtitle_frames, call, locks, stream_manager, sink>>

\* a pause() that leaves the output buffer as it is
CallPauseNoClear ==
    /\ ctl.pc = "idle"
    /\ clock' = ClockPause(clock)
    /\ state' = "Paused"
    /\ UNCHANGED <<path, running, first_audio, need_flush, is_network,
                   seek_position, audio_output, handles, dt_tx, cmds, demux,
                   vpq, apq, spq, vdec, adec, sdec, vfq, afq, sfq, ctl, budget, obs, media,
                   audio_buffer, current_frame_pts,
                   external_subtitle_frames, call, locks, stream_manager, sink>>

\* pause(): clock.pause(), output.clear_buffer(), state = Paused
CallPause ==
    /\ ctl.pc = "idle"
    /\ clock' = ClockPause(clock)
    /\ state' = "Paused"
    /\ audio_buffer' = IF audio_output THEN FALSE ELSE audio_buffer
    /\ UNCHANGED <<path, running, first_audio, need_flush, is_network,
                   seek_position, audio_output, handles, dt_tx, cmds, demux,
                   vpq, apq, spq, vdec, adec, sdec, vfq, afq, sfq, ctl, budget, obs, media, current_frame_pts,
                   external_subtitle_frames, call, locks, stream_manager, sink>>

\* seek(position_ms)
CallSeek(T) ==
    /\ ctl.pc = "idle" /\ budget.seeks > 0
    /\ \E t \in T : ctl' = [pc |-> "seek_slot", ret |-> "idle", op |-> "seek", t |-> t, live |-> FALSE]
    /\ budget' = [budget EXCEPT !.seeks = @ - 1]
    /\ current_frame_pts' = NoPts
    /\ UNCHANGED <<state, path, running, first_audio, need_flush, is_network,
                   seek_position, clock, audio_output, handles, dt_tx, cmds, demux,
                   vpq, apq, spq, vdec, adec, sdec, vfq, afq, sfq, obs, media,
                   audio_buffer,
                   external_subtitle_frames, call, locks, stream_manager, sink>>

-----------------------------------------------------------------------------
(* PlaybackManager::seek, manager.rs 630-719, one step per shared access *)

\* *seek_pos = Some((position_ms, Instant::now()))
SeekSlot ==
    /\ ctl.pc = "seek_slot"
    /\ seek_position' = SomeSeek(ctl.t)
    /\ obs' = [obs EXCEPT !.issued = ctl.t, !.firstV = FALSE, !.firstA = FALSE]
    /\ ctl' = [ctl EXCEPT !.pc = "seek_first"]
    /\ UNCHANGED <<state, path, running, first_audio, need_flush, is_network,
                   clock, audio_output, handles, dt_tx, cmds, demux,
                   vpq, apq, spq, vdec, adec, sdec, vfq, afq, sfq, budget, media,
                   audio_buffer, current_frame_pts,
                   external_subtitle_frames, call, locks, stream_manager, sink>>

\* is_first_audio_frame.store(true)
SeekFirstFlag ==
    /\ ctl.pc = "seek_first"
    /\ first_audio' = TRUE
    /\ ctl' = [ctl EXCEPT !.pc = "seek_flush"]
    /\ UNCHANGED <<state, path, running, need_flush, is_network,
                   seek_position, clock, audio_output, handles, dt_tx, cmds, demux,
                   vpq, apq, spq, vdec, adec, sdec, vfq, afq, sfq, budget, obs, media,
                   audio_buffer, current_frame_pts,
                   external_subtitle_frames, call, locks, stream_manager, sink>>

\* output.clear_buffer() and need_flush_decoders.store(true)
SeekFlushFlag ==
    /\ ctl.pc = "seek_flush"
    /\ need_flush' = TRUE
    /\ ctl' = [ctl EXCEPT !.pc = "seek_drainv"]
    /\ audio_buffer' = IF audio_output THEN FALSE ELSE audio_buffer
    /\ UNCHANGED <<state, path, running, first_audio, is_network,
                   seek_position, clock, audio_output, handles, dt_tx, cmds, demux,
                   vpq, apq, spq, vdec, adec, sdec, vfq, afq, sfq, budget, obs, media, current_frame_pts,
                   external_subtitle_frames, call, locks, stream_manager, sink>>

\* while video_frame_queue.pop().is_some() {}
SeekDrainVideo ==
    /\ ctl.pc = "seek_drainv"
    /\ vfq' = <<>>
    /\ ctl' = [ctl EXCEPT !.pc = "seek_draina"]
    /\ UNCHANGED <<state, path, running, first_audio, need_flush, is_network,
                   seek_position, clock, audio_output, handles, dt_tx, cmds, demux,
                   vpq, apq, spq, vdec, adec, sdec, afq, sfq, budget, obs, media,
                   audio_buffer, current_frame_pts,
                   external_subtitle_frames, call, locks, stream_manager, sink>>

\* while audio_frame_queue.pop().is_some() {}
SeekDrainAudio ==
    /\ ctl.pc = "seek_draina"
    /\ afq' = <<>>
    /\ ctl' = [ctl EXCEPT !.pc = "seek_drains"]
    /\ UNCHANGED <<state, path, running, first_audio, need_flush, is_network,
                   seek_position, clock, audio_output, handles, dt_tx, cmds, demux,
                   vpq, apq, spq, vdec, adec, sdec, vfq, sfq, budget, obs, media,
                   audio_buffer, current_frame_pts,
                   external_subtitle_frames, call, locks, stream_manager, sink>>

\* while subtitle_frame_queue.pop().is_some() {}
SeekDrainSubtitle ==
    /\ ctl.pc = "seek_drains"
    /\ sfq' = <<>>
    /\ ctl' = [ctl EXCEPT !.pc = "seek_clock"]
    /\ UNCHANGED <<state, path, running, first_audio, need_flush, is_network,
                   seek_position, clock, audio_output, handles, dt_tx, cmds, demux,
                   vpq, apq, spq, vdec, adec, sdec, vfq, afq, budget, obs, media,
                   audio_buffer, current_frame_pts,
                   external_subtitle_frames, call, locks, stream_manager, sink>>

\* clock.set_time(position_ms)
SeekClock ==
    /\ ctl.pc = "seek_clock"
    /\ clock' = ClockSetTime(clock, ctl.t)
    /\ ctl' = [ctl EXCEPT !.pc = "seek_send"]
    /\ UNCHANGED <<state, path, running, first_audio, need_flush, is_network,
                   seek_position, audio_output, handles, dt_tx, cmds, demux,
                   vpq, apq, spq, vdec, adec, sdec, vfq, afq, sfq, budget, obs, media,
                   audio_buffer, current_frame_pts,
                   external_subtitle_frames, call, locks, stream_manager, sink>>

\* demuxer_thread.seek(position_ms) or seek_tx.send(position_ms): queued while
\* the receiving thread lives, an Err (logged) once it has returned; with
\* neither a DemuxerThread nor a seek_tx only a warning.  seek() returns.
SeekSend ==
    /\ ctl.pc = "seek_send"
    /\ cmds' = IF (handles.dt \/ handles.demux) /\ Alive(demux)
               THEN Append(cmds, [op |-> "Seek", t |-> ctl.t])
               ELSE cmds
    /\ obs' = [obs EXCEPT !.firstV = TRUE, !.firstA = TRUE]
    /\ ctl' = Idle
    /\ UNCHANGED <<state, path, running, first_audio, need_flush, is_network,
                   seek_position, clock, audio_output, handles, dt_tx, demux,
                   vpq, apq, spq, vdec, adec, sdec, vfq, afq, sfq, budget, media,
                   audio_buffer, current_frame_pts,
                   external_subtitle_frames, call, locks, stream_manager, sink>>

-----------------------------------------------------------------------------
(* The GUI frame: get_current_frame and update_audio *)

\* get_current_frame: video_frame_queue.pop() (the cleanup branch needs more
\* than 80 queued frames, which no decoder limit allows)
PullVideo ==
    /\ ctl.pc = "idle"
    /\ vfq # <<>>
    /\ vfq' = Tail(vfq)
    /\ obs' = [obs EXCEPT !.firstV = FALSE]
    /\ UNCHANGED <<state, path, running, first_audio, need_flush, is_network,
                   seek_position, clock, audio_output, handles, dt_tx, cmds, demux,
                   vpq, apq, spq, vdec, adec, sdec, afq, sfq, ctl, budget, media,
                   audio_buffer, current_frame_pts,
                   external_subtitle_frames, call, locks, stream_manager, sink>>

\* update_audio: only in Playing and with an output; pop frames and
\* write_frame each into the output buffer, until the queue is empty or the
\* buffer holds more than 96000 samples
UpdateAudio ==
    /\ ctl.pc = "idle"
    /\ state = "Playing" /\ audio_output
    /\ afq # <<>>
    /\ \E n \in 1..Len(afq) : afq' = SubSeq(afq, n + 1, Len(afq))
    /\ obs' = [obs EXCEPT !.firstA = FALSE]
    /\ audio_buffer' = TRUE
    /\ UNCHANGED <<state, path, running, first_audio, need_flush, is_network,
                   seek_position, clock, audio_output, handles, dt_tx, cmds, demux,
                   vpq, apq, spq, vdec, adec, sdec, vfq, sfq, ctl, budget, media, current_frame_pts,
                   external_subtitle_frames, call, locks, stream_manager, sink>>

\* the cpal output callback: buffer.pop() for every sample of the device
\* period, until the buffer is empty
SinkPlays ==
    /\ audio_output /\ audio_buffer
    /\ audio_buffer' = FALSE
    /\ UNCHANGED <<state, path, running, first_audio, need_flush, is_network,
                   seek_position, clock, audio_output, handles, dt_tx, cmds,
                   demux, vpq, apq, spq, vdec, adec, sdec, vfq, afq, sfq,
                   ctl, budget, obs, media, current_frame_pts,
                   external_subtitle_frames, call, locks, stream_manager, sink>>

\* the multiples of 10 ms below 32 s for which (ms as f64 / 1000.0) * 1000.0
\* falls just below ms; every time of this model is a multiple of 10 ms
InexactMs == {2010, 2030, 4020, 4060, 8030, 8040, 8110, 8120, 8190,
              16060, 16080, 16130, 16150, 16220, 16240, 16310, 16330, 16380}

\* get_position() followed by (pos * 1000.0) as i64: the cast truncates
SecondsRoundTrip(ms) == IF ms \in InexactMs THEN ms - 1 ELSE ms

\* manager.get_position() as the GUI reads it: clock.now() in ms, as f64
\* seconds, and back to i64 ms
CurrentTimeMs == SecondsRoundTrip(ClockNow(clock))

RECURSIVE JumpAheadUncapped(_, _, _, _)
\* a jump of the third tier that goes on until the queue is empty
JumpAheadUncapped(q, now, n, latest) ==
    IF q = <<>> THEN <<latest, q>>
    ELSE IF Head(q) < now - JUMP_STALE
         THEN JumpAheadUncapped(Tail(q), now, n, Head(q))
         ELSE <<Head(q), Tail(q)>>

RECURSIVE JumpAhead(_, _, _, _)
\* the jump of the third tier over the queue q with n frames left to examine:
\* pop; a frame more than JUMP_STALE behind the clock is kept as the latest
\* and the loop goes on, any other frame ends it: <<latest frame, queue left>>
JumpAhead(q, now, n, latest) ==
    IF n = 0 \/ q = <<>> THEN <<latest, q>>
    ELSE IF Head(q) < now - JUMP_STALE
         THEN JumpAhead(Tail(q), now, n - 1, Head(q))
         ELSE <<Head(q), Tail(q)>>

\* the frame render_video_area fetches for the clock value now when it shows
\* the frame cur, and the queue it leaves: <<frame or NoPts, queue left>>
FetchFrame(q, now, cur) ==
    LET one == IF q = <<>> THEN <<NoPts, q>> ELSE <<Head(q), Tail(q)>>
        time_diff == now - cur
        update_threshold == IF time_diff > JUMP_LAG THEN 0
                            ELSE IF time_diff > CATCHUP_LAG THEN CATCHUP_THRESHOLD
                            ELSE SYNC_THRESHOLD
    IN  IF cur = NoPts THEN one
        ELSE IF time_diff >= update_threshold
             THEN IF time_diff > JUMP_LAG
                  THEN JumpAhead(q, now, JUMP_FRAMES, NoPts)
                  ELSE one
             ELSE <<NoPts, q>>

\* one frame of the GUI, render_video_area: fetch by the three-tier policy
\* and show the frame fetched; with no new frame the last one stays
RenderVideo ==
    /\ ctl.pc = "idle"
    /\ LET r == FetchFrame(vfq, CurrentTimeMs, current_frame_pts) IN
        /\ r[1] # NoPts
        /\ vfq' = r[2]
        /\ current_frame_pts' = r[1]
    /\ obs' = [obs EXCEPT !.firstV = FALSE]
    /\ UNCHANGED <<state, path, running, first_audio, need_flush, is_network,
                   seek_position, clock, audio_output, handles, dt_tx, cmds,
                   demux, vpq, apq, spq, vdec, adec, sdec, afq, sfq, ctl,
                   budget, media, audio_buffer,
                   external_subtitle_frames, call, locks, stream_manager, sink>>

-----------------------------------------------------------------------------
(* Time *)

\* TICK_MS pass on the wall clock: base_instant.elapsed() grows, whether the
\* clock is paused or running
Tick ==
    /\ (IF clock.paused THEN clock.elapsed ELSE ClockNow(clock)) < MaxTicks * TICK_MS
    /\ clock' = [clock EXCEPT !.elapsed = @ + TICK_MS]
    /\ UNCHANGED <<state, path, running, first_audio, need_flush, is_network,
                   seek_position, audio_output, handles, dt_tx, cmds, demux,
                   vpq, apq, spq, vdec, adec, sdec, vfq, afq, sfq, ctl,
                   budget, obs, media, audio_buffer, current_frame_pts,
                   external_subtitle_frames, call, locks, stream_manager, sink>>

\* two seconds pass since the seek request was published
SeekAges ==
    /\ seek_position.some /\ ~seek_position.expired
    /\ seek_position' = [seek_position EXCEPT !.expired = TRUE]
    /\ UNCHANGED <<state, path, running, first_audio, need_flush, is_network,
                   clock, audio_output, handles, dt_tx, cmds, demux,
                   vpq, apq, spq, vdec, adec, sdec, vfq, afq, sfq, ctl, budget, obs, media,
                   audio_buffer, current_frame_pts,
                   external_subtitle_frames, call, locks, stream_manager, sink>>

\* 500 ms pass since a DemuxerThread-mode decoder flushed (last_seek_time)
VideoWindowCloses ==
    /\ Alive(vdec) /\ vdec.recent
    /\ vdec' = [vdec EXCEPT !.recent = FALSE]
    /\ UNCHANGED <<state, path, running, first_audio, need_flush, is_network,
                   seek_position, clock, audio_output, handles, dt_tx, cmds, demux,
                   vpq, apq, spq, adec, sdec, vfq, afq, sfq, ctl, budget, obs, media,
                   audio_buffer, current_frame_pts,
                   external_subtitle_frames, call, locks, stream_manager, sink>>

AudioWindowCloses ==
    /\ Alive(adec) /\ adec.recent
    /\ adec' = [adec EXCEPT !.recent = FALSE]
    /\ UNCHANGED <<state, path, running, first_audio, need_flush, is_network,
                   seek_position, clock, audio_output, handles, dt_tx, cmds, demux,
                   vpq, apq, spq, vdec, sdec, vfq, afq, sfq, ctl, budget, obs, media,
                   audio_buffer, current_frame_pts,
                   external_subtitle_frames, call, locks, stream_manager, sink>>

-----------------------------------------------------------------------------
(* The specifications *)

LegacyDemuxStep ==
    \/ LDemuxStop \/ LDemuxDrain \/ LDemuxRead \/ LDemuxEof \/ LDemuxErr \/ LDemuxWait

DemuxerThreadStep ==
    \/ DDemuxCommands \/ DDemuxRead \/ DDemuxEof \/ DDemuxErr \/ DDemuxSend

LegacyVideoStep == LVideoStop \/ LVideoPop \/ LVideoFilter \/ LVideoPush

DVideoStep ==
    \/ DVideoTop \/ DVideoHardWait \/ DVideoRecv \/ DVideoFilter \/ DVideoPush
    \/ DVideoBackoff

LegacyAudioStep ==
    \/ LAudioStop \/ LAudioPop \/ LAudioFilter \/ LAudioBaseline \/ LAudioPush
    \/ LAudioQueueControl

DAudioStep ==
    \/ DAudioTop \/ DAudioHardWait \/ DAudioRecv \/ DAudioFilter \/ DAudioBaseline
    \/ DAudioPush \/ DAudioBackoff

SubtitleStep == LSubStop \/ LSubPop \/ LSubPush

LegacyWorkers == LegacyDemuxStep \/ LegacyVideoStep \/ LegacyAudioStep \/ SubtitleStep

DemuxerThreadWorkers == DemuxerThreadStep \/ DVideoStep \/ DAudioStep

StopStep ==
    \/ StopFlag \/ StopDemuxerThread \/ StopJoinDemuxerThread \/ StopJoinDemux
    \/ StopJoinVideo \/ StopJoinAudio \/ StopJoinSub \/ StopDrain \/ StopReset
    \/ StopReturn

LegacyOpenStep ==
    \/ OpenInit \/ OpenProbe \/ OpenDecoderFails \/ SpawnLegacy \/ AttachPaused

SeekStep ==
    \/ SeekSlot \/ SeekFirstFlag \/ SeekFlushFlag \/ SeekDrainVideo
    \/ SeekDrainAudio \/ SeekDrainSubtitle \/ SeekClock \/ SeekSend

GuiFrame == PullVideo \/ UpdateAudio

\* Sessions: the user opens sources through any entry point, plays, pauses,
\* stops and re-opens; the window is hidden, so no frame is consumed and the
\* workers run into their queue limits.
Next ==
    \/ LegacyWorkers \/ DemuxerThreadWorkers
    \/ StopStep \/ LegacyOpenStep \/ SpawnDemuxerThread \/ Buffering \/ BufferPoll \/ BufferingEnds
    \/ CallOpen(EntryPoints) \/ CallStop \/ CallPlayReopen \/ PlayNow \/ CallPause

Spec == Init /\ [][Next]_vars

\* Seeking: the user opens one source, a local file or a DemuxerThread
\* source, plays and seeks while the GUI pulls frames.  The session is
\* not stopped, so `running` stays true once the workers are spawned.
SeekEntryPoints == {"open", "attach_async"}

InitSeek ==
    /\ state = "Idle"
    /\ path = "none"
    /\ running = FALSE
    /\ first_audio = TRUE
    /\ need_flush = FALSE
    /\ is_network = FALSE
    /\ seek_position = NoSeek
    /\ clock = ClockNew
    /\ audio_output = FALSE
    /\ handles = [demux |-> FALSE, dt |-> FALSE, video |-> FALSE,
                  audio |-> FALSE, sub |-> FALSE]
    /\ dt_tx = FALSE
    /\ cmds = <<>>
    /\ demux = NoDemux
    /\ vpq = <<>> /\ apq = <<>> /\ spq = <<>>
    /\ vdec = NoThread /\ adec = NoThread /\ sdec = NoThread
    /\ vfq = <<>> /\ afq = <<>> /\ sfq = <<>>
    /\ external_subtitle_frames = <<>> /\ call = NoCall
    /\ locks = NoLocks
    /\ sink = NoSink
    /\ stream_manager = NoNet
    /\ ctl = Idle
    /\ budget = [opens |-> 1, seeks |-> MaxSeeks]
    /\ media = PlainFile
    /\ obs = NoObs
    /\ audio_buffer = FALSE
    /\ current_frame_pts = NoPts

TimeStep == SeekAges \/ VideoWindowCloses \/ AudioWindowCloses

DemuxerRuns ==
    \/ LDemuxDrain \/ LDemuxRead \/ LDemuxEof \/ LDemuxWait
    \/ DDemuxCommands \/ DDemuxRead \/ DDemuxEof \/ DDemuxSend

VideoDecoderRuns == LVideoPop \/ LVideoFilter \/ LVideoPush \/ DVideoStep

AudioDecoderRuns ==
    \/ LAudioPop \/ LAudioFilter \/ LAudioBaseline \/ LAudioPush
    \/ LAudioQueueControl
    \/ DAudioStep

ControllerRuns ==
    \/ StopStep \/ SeekStep
    \/ OpenInit \/ OpenProbe \/ SpawnLegacy
    \/ SpawnDemuxerThread \/ Buffering \/ BufferPoll \/ BufferingEnds

NextSeek ==
    \/ DemuxerRuns \/ VideoDecoderRuns \/ AudioDecoderRuns
    \/ ControllerRuns
    \/ CallOpen(SeekEntryPoints) \/ PlayNow \/ CallSeek(SeekTargets)
    \/ GuiFrame \/ TimeStep

\* every thread is scheduled again and again, the controller finishes the
\* call it is in, and time passes
SeekSpec ==
    /\ InitSeek /\ [][NextSeek]_vars
    /\ WF_vars(DemuxerRuns) /\ WF_vars(VideoDecoderRuns) /\ WF_vars(AudioDecoderRuns)
    /\ WF_vars(ControllerRuns) /\ WF_vars(TimeStep)

\* A burst of seeks: the user opens one source and issues MaxBurst seeks in
\* quick succession (within the post-seek window and the 2 s watchdog); the
\* demuxer is not scheduled from the first seek of the burst to the return of
\* the last, so no packet is read in between.  Nothing is consumed.
InitBurst ==
    /\ state = "Idle"
    /\ path = "none"
    /\ running = FALSE
    /\ first_audio = TRUE
    /\ need_flush = FALSE
    /\ is_network = FALSE
    /\ seek_position = NoSeek
    /\ clock = ClockNew
    /\ audio_output = FALSE
    /\ handles = [demux |-> FALSE, dt |-> FALSE, video |-> FALSE,
                  audio |-> FALSE, sub |-> FALSE]
    /\ dt_tx = FALSE
    /\ cmds = <<>>
    /\ demux = NoDemux
    /\ vpq = <<>> /\ apq = <<>> /\ spq = <<>>
    /\ vdec = NoThread /\ adec = NoThread /\ sdec = NoThread
    /\ vfq = <<>> /\ afq = <<>> /\ sfq = <<>>
    /\ external_subtitle_frames = <<>> /\ call = NoCall
    /\ locks = NoLocks
    /\ sink = NoSink
    /\ stream_manager = NoNet
    /\ ctl = Idle
    /\ budget = [opens |-> 1, seeks |-> MaxBurst]
    /\ media = PlainFile
    /\ obs = NoObs
    /\ audio_buffer = FALSE
    /\ current_frame_pts = NoPts

\* no burst has begun, or the last seek of the burst has returned
BurstOver == budget.seeks = MaxBurst \/ (budget.seeks = 0 /\ ctl.pc = "idle")

BurstDemuxerRuns == BurstOver /\ DemuxerRuns

NextBurst ==
    \/ BurstDemuxerRuns \/ VideoDecoderRuns \/ AudioDecoderRuns
    \/ ControllerRuns
    \/ CallOpen(SeekEntryPoints) \/ CallSeek(SeekTargets)

BurstSpec == InitBurst /\ [][NextBurst]_vars

\* Stopping a DemuxerThread session: the user attaches a source, may seek
\* once and stops; nothing is consumed and the reader reports no error.  The
\* scheduler is fair to every thread, the controller finishes a call it has
\* begun, and time passes.
LongVideo == << [k |-> "V", pts |-> 3000], [k |-> "A", pts |-> 3000],
                [k |-> "V", pts |-> 3000], [k |-> "V", pts |-> 3000],
                [k |-> "V", pts |-> 3000] >>

FairSeekTargets == {3000}

InitFair ==
    /\ state = "Idle"
    /\ path = "none"
    /\ running = FALSE
    /\ first_audio = TRUE
    /\ need_flush = FALSE
    /\ is_network = FALSE
    /\ seek_position = NoSeek
    /\ clock = ClockNew
    /\ audio_output = FALSE
    /\ handles = [demux |-> FALSE, dt |-> FALSE, video |-> FALSE,
                  audio |-> FALSE, sub |-> FALSE]
    /\ dt_tx = FALSE
    /\ cmds = <<>>
    /\ demux = NoDemux
    /\ vpq = <<>> /\ apq = <<>> /\ spq = <<>>
    /\ vdec = NoThread /\ adec = NoThread /\ sdec = NoThread
    /\ vfq = <<>> /\ afq = <<>> /\ sfq = <<>>
    /\ external_subtitle_frames = <<>> /\ call = NoCall
    /\ locks = NoLocks
    /\ sink = NoSink
    /\ stream_manager = NoNet
    /\ ctl = Idle
    /\ budget = [opens |-> 1, seeks |-> MaxSeeks]
    /\ media = LongVideo
    /\ obs = NoObs
    /\ audio_buffer = FALSE
    /\ current_frame_pts = NoPts

FairDemuxStep == DDemuxCommands \/ DDemuxRead \/ DDemuxEof \/ DDemuxSend

FairControllerStep ==
    \/ StopStep \/ SeekStep
    \/ OpenInit \/ OpenProbe \/ SpawnDemuxerThread \/ Buffering \/ BufferPoll \/ BufferingEnds

WindowStep == VideoWindowCloses \/ AudioWindowCloses

NextFair ==
    \/ FairDemuxStep \/ DVideoStep \/ DAudioStep
    \/ FairControllerStep \/ WindowStep
    \/ CallOpen(DemuxerThreadEntryPoints) \/ CallStop \/ CallSeek(FairSeekTargets)

FairSpec ==
    /\ InitFair /\ [][NextFair]_vars
    /\ WF_vars(FairDemuxStep) /\ WF_vars(DVideoStep) /\ WF_vars(DAudioStep)
    /\ WF_vars(FairControllerStep) /\ WF_vars(WindowStep)

\* The watchdog: the user attaches a DemuxerThread source and seeks once; the
\* session is neither stopped nor consumed, every thread keeps being
\* scheduled and time passes, so the 2 s of the watchdog do elapse.
NextWatchdog ==
    \/ FairDemuxStep \/ DVideoStep \/ DAudioStep
    \/ FairControllerStep \/ TimeStep
    \/ CallOpen(DemuxerThreadEntryPoints) \/ CallSeek(SeekTargets)

WatchdogSpec ==
    /\ InitSeek /\ [][NextWatchdog]_vars
    /\ WF_vars(FairDemuxStep) /\ WF_vars(DVideoStep) /\ WF_vars(DAudioStep)
    /\ WF_vars(FairControllerStep) /\ WF_vars(TimeStep)

\* The clock: the user opens local files, plays, pauses, stops and plays
\* again while wall time passes, the GUI feeds the audio output and the
\* device plays what it is fed.
ShortFile == << [k |-> "V", pts |-> 0], [k |-> "A", pts |-> 0],
                [k |-> "A", pts |-> 600] >>

LocalEntryPoints == {"open"}

InitClock ==
    /\ state = "Idle"
    /\ path = "none"
    /\ running = FALSE
    /\ first_audio = TRUE
    /\ need_flush = FALSE
    /\ is_network = FALSE
    /\ seek_position = NoSeek
    /\ clock = ClockNew
    /\ audio_output = FALSE
    /\ handles = [demux |-> FALSE, dt |-> FALSE, video |-> FALSE,
                  audio |-> FALSE, sub |-> FALSE]
    /\ dt_tx = FALSE
    /\ cmds = <<>>
    /\ demux = NoDemux
    /\ vpq = <<>> /\ apq = <<>> /\ spq = <<>>
    /\ vdec = NoThread /\ adec = NoThread /\ sdec = NoThread
    /\ vfq = <<>> /\ afq = <<>> /\ sfq = <<>>
    /\ external_subtitle_frames = <<>> /\ call = NoCall
    /\ locks = NoLocks
    /\ sink = NoSink
    /\ stream_manager = NoNet
    /\ ctl = Idle
    /\ budget = [opens |-> MaxOpens, seeks |-> 0]
    /\ media = ShortFile
    /\ obs = NoObs
    /\ audio_buffer = FALSE
    /\ current_frame_pts = NoPts

LocalDemuxStep == LDemuxStop \/ LDemuxDrain \/ LDemuxRead \/ LDemuxEof \/ LDemuxWait

NextClock ==
    \/ LocalDemuxStep \/ LegacyVideoStep \/ LegacyAudioStep \/ LSubStop
    \/ StopStep \/ OpenInit \/ OpenProbe \/ SpawnLegacy
    \/ CallOpen(LocalEntryPoints) \/ CallStop \/ CallPlayReopen \/ PlayNow \/ CallPause
    \/ UpdateAudio \/ SinkPlays \/ Tick

ClockSpec == InitClock /\ [][NextClock]_vars

\* Rendering: the user opens one local file, plays, pauses and seeks while
\* wall time passes and the GUI renders a frame whenever it is scheduled.
InitRender ==
    /\ state = "Idle"
    /\ path = "none"
    /\ running = FALSE
    /\ first_audio = TRUE
    /\ need_flush = FALSE
    /\ is_network = FALSE
    /\ seek_position = NoSeek
    /\ clock = ClockNew
    /\ audio_output = FALSE
    /\ handles = [demux |-> FALSE, dt |-> FALSE, video |-> FALSE,
                  audio |-> FALSE, sub |-> FALSE]
    /\ dt_tx = FALSE
    /\ cmds = <<>>
    /\ demux = NoDemux
    /\ vpq = <<>> /\ apq = <<>> /\ spq = <<>>
    /\ vdec = NoThread /\ adec = NoThread /\ sdec = NoThread
    /\ vfq = <<>> /\ afq = <<>> /\ sfq = <<>>
    /\ external_subtitle_frames = <<>> /\ call = NoCall
    /\ locks = NoLocks
    /\ sink = NoSink
    /\ stream_manager = NoNet
    /\ ctl = Idle
    /\ budget = [opens |-> 1, seeks |-> MaxSeeks]
    /\ media = PlainFile
    /\ obs = NoObs
    /\ audio_buffer = FALSE
    /\ current_frame_pts = NoPts

NextRender ==
    \/ LDemuxDrain \/ LDemuxRead \/ LDemuxEof \/ LDemuxWait
    \/ LVideoPop \/ LVideoFilter \/ LVideoPush
    \/ LAudioPop \/ LAudioFilter \/ LAudioBaseline \/ LAudioPush \/ LAudioQueueControl
    \/ StopStep \/ SeekStep \/ OpenInit \/ OpenProbe \/ SpawnLegacy
    \/ CallOpen(LocalEntryPoints) \/ PlayNow \/ CallPause \/ CallSeek(SeekTargets)
    \/ RenderVideo \/ Tick

RenderSpec == InitRender /\ [][NextRender]_vars

-----------------------------------------------------------------------------
(* Subtitles: PlaybackManager::get_current_subtitle, manager.rs 930-996 *)

\* MAX_CHECK_COUNT (100): the frames one call examines, scaled down
MAX_CHECK_COUNT == 2

\* the cues of the model, SubtitleFrame { pts, end_pts }, and the clock values
\* a cue is asked for
SubtitleFrames == {[pts |-> p, end_pts |-> p + d] : p \in {0, 1000, 2000}, d \in {1000, 3000}}
SubtitleTimes == {500, 1500, 2500}
MaxCues == 3
MaxExternalCues == 2

\* Option<SubtitleFrame>::None
NoCue == [pts |-> NoPts, end_pts |-> NoPts]

\* current_time_ms >= frame.pts && current_time_ms < frame.end_pts
Covers(frame, now) == now >= frame.pts /\ now < frame.end_pts

\* the while-let loop over the queue: <<best_subtitle, pending_frames, what is
\* left in the queue>>
RECURSIVE ScanSubtitles(_, _, _, _, _)
ScanSubtitles(q, now, checked_count, best, pending) ==
    IF q = <<>> THEN <<best, pending, q>>
    ELSE LET frame == Head(q) IN
         IF checked_count + 1 > MAX_CHECK_COUNT
         THEN <<best, Append(pending, frame), Tail(q)>>
         ELSE IF Covers(frame, now)
         THEN IF best = NoCue
              THEN ScanSubtitles(Tail(q), now, checked_count + 1, frame,
                                 Append(pending, frame))
              ELSE IF frame.pts > best.pts
              THEN ScanSubtitles(Tail(q), now, checked_count + 1, frame,
                                 Append(Append(pending, best), frame))
              ELSE ScanSubtitles(Tail(q), now, checked_count + 1, best,
                                 Append(pending, frame))
         ELSE IF now < frame.pts
         THEN ScanSubtitles(Tail(q), now, checked_count + 1, best,
                            Append(pending, frame))
         ELSE ScanSubtitles(Tail(q), now, checked_count + 1, best, pending)

\* should_keep of the put-back loop
ShouldKeep(frame, best, now) ==
    IF best = NoCue THEN TRUE ELSE frame.pts = best.pts \/ now < frame.pts

\* get_external_subtitle: the first cue of the sorted list that covers now
RECURSIVE GetExternalSubtitle(_, _)
GetExternalSubtitle(frames, now) ==
    IF frames = <<>> THEN NoCue
    ELSE IF Covers(Head(frames), now) THEN Head(frames)
    ELSE IF now < Head(frames).pts THEN NoCue
    ELSE GetExternalSubtitle(Tail(frames), now)

\* get_current_subtitle(current_time_ms): <<the cue returned, the queue left>>
GetCurrentSubtitle(q, ext, now) ==
    LET r == ScanSubtitles(q, now, 0, NoCue, <<>>)
        kept == SelectSeq(r[2], LAMBDA f : ShouldKeep(f, r[1], now))
    IN  << IF r[1] = NoCue THEN GetExternalSubtitle(ext, now) ELSE r[1],
           r[3] \o kept >>

\* render_subtitle asks for the cue of the clock value now
CallGetCurrentSubtitle ==
    \E now \in SubtitleTimes :
        LET r == GetCurrentSubtitle(sfq, external_subtitle_frames, now) IN
        /\ call' = [fn |-> "get_current_subtitle", arg |-> now, ret |-> r[1]]
        /\ sfq' = r[2]
        /\ UNCHANGED <<state, path, running, first_audio, need_flush, is_network,
                       seek_position, clock, audio_output, handles, dt_tx, cmds,
                       demux, vpq, apq, spq, vdec, adec, sdec, vfq, afq, ctl,
                       budget, obs, media, audio_buffer, current_frame_pts,
                       external_subtitle_frames, locks, stream_manager, sink>>

\* sequences of at most n cues in the order of their pts: the order in which
\* the subtitle decoder queues the cues of a track, and the order
\* load_external_subtitles sorts a file into
RECURSIVE SortedCues(_)
SortedCues(n) ==
    IF n = 0 THEN {<<>>}
    ELSE LET shorter == SortedCues(n - 1) IN
         shorter \cup
         {Append(q, f) : q \in {x \in shorter : Len(x) = n - 1}, f \in SubtitleFrames}

\* the cues of q are in the order of their pts
InPtsOrder(q) == \A i \in 1..(Len(q) - 1) : q[i].pts <= q[i + 1].pts

\* every variable of the engine but the subtitle queues, the seek slot and
\* the record of the last call, as PlaybackManager::new leaves it
EngineAtRest ==
    /\ state = "Idle"
    /\ path = "none"
    /\ running = FALSE
    /\ first_audio = TRUE
    /\ need_flush = FALSE
    /\ is_network = FALSE
    /\ clock = ClockNew
    /\ audio_output = FALSE
    /\ handles = [demux |-> FALSE, dt |-> FALSE, video |-> FALSE,
                  audio |-> FALSE, sub |-> FALSE]
    /\ dt_tx = FALSE
    /\ cmds = <<>>
    /\ demux = NoDemux
    /\ vpq = <<>> /\ apq = <<>> /\ spq = <<>>
    /\ vdec = NoThread /\ adec = NoThread /\ sdec = NoThread
    /\ vfq = <<>> /\ afq = <<>>
    /\ ctl = Idle
    /\ budget = [opens |-> 0, seeks |-> 0]
    /\ media = SubtitledFile
    /\ obs = NoObs
    /\ audio_buffer = FALSE
    /\ current_frame_pts = NoPts
    /\ locks = NoLocks
    /\ sink = NoSink

\* Subtitle lookup: the subtitle decoder has queued some cues of the track,
\* open() has loaded some cues of a subtitle file, and the GUI asks for the
\* cue to show, frame after frame.
InitSubtitle ==
    /\ EngineAtRest
    /\ stream_manager = NoNet
    /\ seek_position = NoSeek
    /\ sfq \in {q \in SortedCues(MaxCues) : InPtsOrder(q)}
    /\ external_subtitle_frames \in {q \in SortedCues(MaxExternalCues) : InPtsOrder(q)}
    /\ call = NoCall

NextSubtitle == CallGetCurrentSubtitle

SubtitleSpec == InitSubtitle /\ [][NextSubtitle]_vars

\* MediaInfo.duration of the container being played: the model's containers
\* end with their last packet
DurationMs == media[Len(media)].pts

\* positions at and past the end of the container the user may seek to
OverSeekTargets == {DurationMs, 3 * DurationMs}

\* Seeking to and past the end: the user opens one local file, plays it and
\* seeks once, to the end of the file or past it.
NextOverSeek ==
    \/ LDemuxDrain \/ LDemuxRead \/ LDemuxEof \/ LDemuxWait
    \/ LVideoPop \/ LVideoFilter \/ LVideoPush
    \/ LAudioPop \/ LAudioFilter \/ LAudioBaseline \/ LAudioPush \/ LAudioQueueControl
    \/ StopStep \/ SeekStep \/ OpenInit \/ OpenProbe \/ SpawnLegacy
    \/ CallOpen(LocalEntryPoints) \/ PlayNow \/ CallSeek(OverSeekTargets)

OverSeekSpec == InitRender /\ [][NextOverSeek]_vars

-----------------------------------------------------------------------------
(* Subtitle text: SubtitleDecoder (player/decoder.rs) and                  *)
(* ExternalSubtitleParser (player/external_subtitle.rs).  A text is the     *)
(* sequence of its characters.                                              *)

\* '\n'
LF == "LF"

\* the characters of the model's texts, and the longest text
Chars == {"{", "}", "<", ">", "\\", "N", "a", " "}
MaxText == 4

\* char::is_whitespace, char::is_ascii_alphabetic
IsWhitespace(ch) == ch \in {" ", LF}
IsAlphabetic(ch) == ch \in {"N", "a", "H", "e", "l", "o", "W", "r", "d", "b", "L", "i", "n"}

\* Chars^n
RECURSIVE TextsOfLen(_)
TextsOfLen(n) ==
    IF n = 0 THEN {<<>>}
    ELSE {Append(s, ch) : s \in TextsOfLen(n - 1), ch \in Chars}

\* the two texts of tests::test_clean_ass_text
BoldHelloWorld == << "{", "\\", "b", "1", "}", "H", "e", "l", "l", "o",
                     "{", "\\", "b", "0", "}", " ", "W", "o", "r", "l", "d" >>
TwoLines == << "L", "i", "n", "e", " ", "1", "\\", "N", "L", "i", "n", "e", " ", "2" >>

Texts == UNION {TextsOfLen(n) : n \in 0..MaxText} \cup {BoldHelloWorld, TwoLines}

\* str::trim_start, str::trim_end, str::trim
RECURSIVE TrimStart(_)
TrimStart(s) ==
    IF s = <<>> THEN s
    ELSE IF IsWhitespace(Head(s)) THEN TrimStart(Tail(s)) ELSE s

RECURSIVE TrimEnd(_)
TrimEnd(s) ==
    IF s = <<>> THEN s
    ELSE IF IsWhitespace(s[Len(s)]) THEN TrimEnd(SubSeq(s, 1, Len(s) - 1)) ELSE s

Trim(s) == TrimEnd(TrimStart(s))

\* str::lines: the segments between '\n's, a last empty segment left out
RECURSIVE SplitLines(_, _, _)
SplitLines(s, cur, acc) ==
    IF s = <<>> THEN (IF cur = <<>> THEN acc ELSE Append(acc, cur))
    ELSE IF Head(s) = LF THEN SplitLines(Tail(s), <<>>, Append(acc, cur))
    ELSE SplitLines(Tail(s), Append(cur, Head(s)), acc)

Lines(s) == SplitLines(s, <<>>, <<>>)

\* [&str]::join("\n")
RECURSIVE JoinLines(_)
JoinLines(ls) ==
    IF ls = <<>> THEN <<>>
    ELSE IF Len(ls) = 1 THEN ls[1]
    ELSE ls[1] \o <<LF>> \o JoinLines(Tail(ls))

\* clean_subtitle_text, the peek loop after a '<' outside an ASS tag:
\* <<found_tag, the characters not consumed>>
RECURSIVE SkipSimpleTag(_)
SkipSimpleTag(s) ==
    IF s = <<>> THEN <<FALSE, s>>
    ELSE IF Head(s) = ">" THEN <<TRUE, Tail(s)>>
    ELSE IF IsWhitespace(Head(s)) \/ Head(s) = "/" \/ IsAlphabetic(Head(s))
         THEN SkipSimpleTag(Tail(s))
    ELSE <<FALSE, s>>

\* clean_subtitle_text, the loop over the characters
RECURSIVE StripSubtitleTags(_, _, _)
StripSubtitleTags(s, in_ass_tag, result) ==
    IF s = <<>> THEN result
    ELSE LET ch == Head(s)
             rest == Tail(s)
         IN
         IF ch = "{" THEN StripSubtitleTags(rest, TRUE, result)
         ELSE IF ch = "}" THEN StripSubtitleTags(rest, FALSE, result)
         ELSE IF ch = "<" THEN
              IF ~in_ass_tag
              THEN LET t == SkipSimpleTag(rest) IN
                   StripSubtitleTags(t[2], in_ass_tag,
                                     IF t[1] THEN result ELSE Append(result, ch))
              ELSE StripSubtitleTags(rest, in_ass_tag, Append(result, ch))
         ELSE IF ch = "\\" THEN
              IF ~in_ass_tag
              THEN IF rest # <<>> /\ Head(rest) \in {"N", "n"}
                   THEN StripSubtitleTags(Tail(rest), in_ass_tag, Append(result, LF))
                   ELSE IF rest # <<>> /\ Head(rest) = "r"
                   THEN StripSubtitleTags(Tail(rest), in_ass_tag, result)
                   ELSE StripSubtitleTags(rest, in_ass_tag, Append(result, ch))
              ELSE StripSubtitleTags(rest, in_ass_tag, Append(result, ch))
         ELSE IF in_ass_tag THEN StripSubtitleTags(rest, in_ass_tag, result)
         ELSE StripSubtitleTags(rest, in_ass_tag, Append(result, ch))

\* SubtitleDecoder::clean_subtitle_text
CleanSubtitleText(text) ==
    IF text = <<>> THEN <<>>
    ELSE LET stripped == StripSubtitleTags(text, FALSE, <<>>)
             trimmed == [i \in 1..Len(Lines(stripped)) |-> Trim(Lines(stripped)[i])]
         IN  Trim(JoinLines(SelectSeq(trimmed, LAMBDA l : l # <<>>)))

\* SubtitleDecoder::decode for a packet with one text rect: the texts of the
\* frames it returns
DecodeSubtitle(rect) ==
    LET text == Append(rect, LF) IN
    IF Trim(text) # <<>> THEN << CleanSubtitleText(text) >> ELSE <<>>

\* ExternalSubtitleParser::clean_ass_text, the loop over the characters
RECURSIVE StripAssTags(_, _, _)
StripAssTags(s, in_tag, result) ==
    IF s = <<>> THEN result
    ELSE LET ch == Head(s)
             rest == Tail(s)
         IN
         IF ch = "{" THEN StripAssTags(rest, TRUE, result)
         ELSE IF ch = "}" THEN StripAssTags(rest, FALSE, result)
         ELSE IF ch = "\\" /\ in_tag
              THEN StripAssTags(IF rest = <<>> THEN rest ELSE Tail(rest), in_tag, result)
         ELSE IF ~in_tag THEN StripAssTags(rest, in_tag, Append(result, ch))
         ELSE StripAssTags(rest, in_tag, result)

\* ExternalSubtitleParser::clean_ass_text
CleanAssText(text) == Trim(StripAssTags(text, FALSE, <<>>))

\* parse_ass_dialogue_line for a line whose tenth field is `field`: the texts
\* of the frames parse_ass pushes for it
ParseAssDialogueLine(field) ==
    LET cleaned_text == CleanAssText(Trim(field)) IN
    IF Trim(cleaned_text) # <<>> THEN << cleaned_text >> ELSE <<>>

\* parse_srt / parse_vtt for one cue whose text lines are `lines`: the text
\* accumulated up to the first empty line
RECURSIVE AccumulateCueText(_, _)
AccumulateCueText(lines, text) ==
    IF lines = <<>> \/ Trim(Head(lines)) = <<>> THEN text
    ELSE AccumulateCueText(Tail(lines),
                           (IF text = <<>> THEN text ELSE Append(text, LF))
                               \o Trim(Head(lines)))

\* parse_srt / parse_vtt for one cue: the texts of the frames pushed for it
ParseSrtCue(body) ==
    LET text == AccumulateCueText(Lines(body), <<>>) IN
    IF Trim(text) # <<>> THEN << Trim(text) >> ELSE <<>>

\* a function of the subtitle code is applied to a text
CallOnText(fn, result) ==
    /\ call.fn = "none"
    /\ call' = [fn |-> fn, arg |-> call.arg, ret |-> result]
    /\ UNCHANGED <<state, path, running, first_audio, need_flush, is_network,
                   seek_position, clock, audio_output, handles, dt_tx, cmds,
                   demux, vpq, apq, spq, vdec, adec, sdec, vfq, afq, sfq, ctl,
                   budget, obs, media, audio_buffer, current_frame_pts,
                   external_subtitle_frames, locks, stream_manager, sink>>

CallDecodeSubtitle == CallOnText("decode", DecodeSubtitle(call.arg))
CallParseAssDialogueLine ==
    CallOnText("parse_ass_dialogue_line", ParseAssDialogueLine(call.arg))
CallParseSrtCue == CallOnText("parse_srt", ParseSrtCue(call.arg))
CallCleanAssText == CallOnText("clean_ass_text", CleanAssText(call.arg))

\* Subtitle text: a text arrives, in a subtitle packet or in a line of a
\* subtitle file, and one function of the subtitle code is applied to it.
InitText ==
    /\ EngineAtRest
    /\ stream_manager = NoNet
    /\ seek_position = NoSeek
    /\ sfq = <<>>
    /\ external_subtitle_frames = <<>>
    /\ call \in {[fn |-> "none", arg |-> text, ret |-> <<>>] : text \in Texts}

NextText ==
    \/ CallDecodeSubtitle \/ CallParseAssDialogueLine
    \/ CallParseSrtCue \/ CallCleanAssText

TextSpec == InitText /\ [][NextText]_vars

-----------------------------------------------------------------------------
(* Timestamps of subtitle files: parse_srt_timestamp and                    *)
(* parse_ass_timestamp, external_subtitle.rs 230-332                        *)

\* Option<i64>::None
NoTime == 0 - 1

\* the fields a timestamp of the model is written with: numbers, an empty
\* field and a field that is not a number
TimeFields == {<<>>, <<"1">>, <<"0", "7">>, <<"3", "0">>, <<"x">>}
FractionFields == {<<>>, <<"5">>, <<"5", "0">>, <<"5", "0", "0">>, <<"x">>}
\* a timestamp has two to MaxTimeFields fields before its fraction
MaxTimeFields == 4

\* the time parts of k fields
RECURSIVE TimeParts(_)
TimeParts(k) ==
    IF k = 0 THEN {<<>>}
    ELSE {Append(fs, f) : fs \in TimeParts(k - 1), f \in TimeFields}

\* a timestamp as written: its time fields, and its fraction with the
\* separator before it ("" when the timestamp has no fraction)
WrittenTimestamps ==
    [fields : UNION {TimeParts(k) : k \in 2..MaxTimeFields},
     sep : {"", ",", "."},
     frac : FractionFields]

\* the characters of a written timestamp
RECURSIVE JoinFields(_)
JoinFields(fs) ==
    IF fs = <<>> THEN <<>>
    ELSE IF Len(fs) = 1 THEN fs[1]
    ELSE fs[1] \o <<":">> \o JoinFields(Tail(fs))

TimestampText(w) ==
    JoinFields(w.fields) \o (IF w.sep = "" THEN <<>> ELSE <<w.sep>> \o w.frac)

\* str::split(sep).collect(): the segments between the separators
RECURSIVE SplitAt(_, _, _, _)
SplitAt(s, sep, cur, acc) ==
    IF s = <<>> THEN Append(acc, cur)
    ELSE IF Head(s) = sep THEN SplitAt(Tail(s), sep, <<>>, Append(acc, cur))
    ELSE SplitAt(Tail(s), sep, Append(cur, Head(s)), acc)

Split(s, sep) == SplitAt(s, sep, <<>>, <<>>)

\* str::parse::<i64>().ok() on a text without a sign: NoTime for None
Digits == [ch \in {"0", "1", "2", "3", "4", "5", "6", "7", "8", "9"} |->
              CASE ch = "0" -> 0 [] ch = "1" -> 1 [] ch = "2" -> 2 [] ch = "3" -> 3
                [] ch = "4" -> 4 [] ch = "5" -> 5 [] ch = "6" -> 6 [] ch = "7" -> 7
                [] ch = "8" -> 8 [] ch = "9" -> 9]

RECURSIVE ParseDigits(_, _)
ParseDigits(s, n) ==
    IF s = <<>> THEN n
    ELSE IF Head(s) \notin DOMAIN Digits THEN NoTime
    ELSE ParseDigits(Tail(s), 10 * n + Digits[Head(s)])

ParseI64(s) == IF s = <<>> THEN NoTime ELSE ParseDigits(s, 0)

\* the `?` chain shared by the two parsers: hours, minutes, seconds and the
\* fraction in units of `unit` ms
ParseTimestamp(timestamp, sep, unit) ==
    LET parts == Split(timestamp, sep) IN
    IF Len(parts) # 2 THEN NoTime
    ELSE LET fraction == ParseI64(parts[2])
             time_components == Split(parts[1], ":")
         IN
         IF fraction = NoTime THEN NoTime
         ELSE IF Len(time_components) # 3 THEN NoTime
         ELSE LET hours == ParseI64(time_components[1])
                  minutes == ParseI64(time_components[2])
                  seconds == ParseI64(time_components[3])
              IN
              IF hours = NoTime \/ minutes = NoTime \/ seconds = NoTime THEN NoTime
              ELSE hours * 3600000 + minutes * 60000 + seconds * 1000 + fraction * unit

\* an ASS parser that reads the fraction as milliseconds
ParseAssTimestampAsMillis(timestamp) == ParseTimestamp(timestamp, ".", 1)

\* ExternalSubtitleParser::parse_srt_timestamp
ParseSrtTimestamp(timestamp) == ParseTimestamp(timestamp, ",", 1)

\* ExternalSubtitleParser::parse_ass_timestamp
ParseAssTimestamp(timestamp) == ParseTimestamp(timestamp, ".", 10)

\* a parser is applied to the timestamp read from a file
CallOnTimestamp(fn, result) ==
    /\ call.fn = "none"
    /\ call' = [fn |-> fn, arg |-> call.arg, ret |-> result]
    /\ UNCHANGED <<state, path, running, first_audio, need_flush, is_network,
                   seek_position, clock, audio_output, handles, dt_tx, cmds,
                   demux, vpq, apq, spq, vdec, adec, sdec, vfq, afq, sfq, ctl,
                   budget, obs, media, audio_buffer, current_frame_pts,
                   external_subtitle_frames, locks, stream_manager, sink>>

CallParseSrtTimestamp ==
    CallOnTimestamp("parse_srt_timestamp", ParseSrtTimestamp(TimestampText(call.arg)))
CallParseAssTimestamp ==
    CallOnTimestamp("parse_ass_timestamp", ParseAssTimestamp(TimestampText(call.arg)))

\* Timestamps: a timestamp is read from a subtitle file and parsed.
InitTimestamp ==
    /\ EngineAtRest
    /\ stream_manager = NoNet
    /\ seek_position = NoSeek
    /\ sfq = <<>>
    /\ external_subtitle_frames = <<>>
    /\ call \in {[fn |-> "none", arg |-> w, ret |-> <<>>] : w \in WrittenTimestamps}

NextTimestamp == CallParseSrtTimestamp \/ CallParseAssTimestamp

TimestampSpec == InitTimestamp /\ [][NextTimestamp]_vars

\* Flushing: the user attaches one DemuxerThread source, plays and seeks
\* once while the GUI pulls frames; the run ends within the post-seek window
\* of the decoders, so `recent` says that the decoder has flushed for the seek.
NextFlush ==
    \/ DDemuxCommands \/ DDemuxRead \/ DDemuxEof \/ DDemuxSend
    \/ DVideoStep \/ DAudioStep
    \/ StopStep \/ SeekStep
    \/ OpenInit \/ OpenProbe \/ SpawnDemuxerThread
    \/ Buffering \/ BufferPoll \/ BufferingEnds
    \/ CallOpen(DemuxerThreadEntryPoints) \/ PlayNow \/ CallSeek(SeekTargets)
    \/ GuiFrame

FlushSpec == InitSeek /\ [][NextFlush]_vars

-----------------------------------------------------------------------------
(* The seek filters of the four decoder threads, applied to one frame *)

\* the PTS of the frames the filters are applied to: around the lower edges
\* of the windows of the seek targets and around their upper edge
FilteredPts == {0, 1999, 2000, 2499, 2500, 3000, 10000, 10001, 13000, 13001}

\* a decoder thread takes the seek slot's lock and filters the frame in hand
CallSeekFilter(fn, should_skip, slot) ==
    /\ call.fn = "none"
    /\ call' = [fn |-> fn, arg |-> call.arg, ret |-> should_skip]
    /\ seek_position' = slot
    /\ UNCHANGED <<state, path, running, first_audio, need_flush, is_network,
                   clock, audio_output, handles, dt_tx, cmds,
                   demux, vpq, apq, spq, vdec, adec, sdec, vfq, afq, sfq, ctl,
                   budget, obs, media, audio_buffer, current_frame_pts,
                   external_subtitle_frames, locks, stream_manager, sink>>

CallLegacyVideoFilter ==
    LET r == LegacyVideoFilter(seek_position, call.arg) IN
    CallSeekFilter("legacy_video_filter", r[1], r[2])
CallLegacyAudioFilter ==
    LET r == LegacyAudioFilter(seek_position, call.arg) IN
    CallSeekFilter("legacy_audio_filter", r[1], r[3])
CallDtVideoFilter ==
    CallSeekFilter("dt_video_filter",
                   DtFilter(seek_position, call.arg, VIDEO_TOLERANCE), seek_position)
CallDtAudioFilter ==
    CallSeekFilter("dt_audio_filter",
                   DtFilter(seek_position, call.arg, AUDIO_TOLERANCE), seek_position)

\* Seek filtering: a decoder holds a frame while the seek slot is empty, holds
\* a request, or holds a request issued more than 2 s ago.
InitFilter ==
    /\ EngineAtRest
    /\ stream_manager = NoNet
    /\ seek_position \in {NoSeek} \cup
           {[SomeSeek(t) EXCEPT !.expired = e] : t \in SeekTargets, e \in BOOLEAN}
    /\ sfq = <<>>
    /\ external_subtitle_frames = <<>>
    /\ call \in {[fn |-> "none", arg |-> pts, ret |-> <<>>] : pts \in FilteredPts}

NextFilter ==
    \/ CallLegacyVideoFilter \/ CallLegacyAudioFilter
    \/ CallDtVideoFilter \/ CallDtAudioFilter

FilterSpec == InitFilter /\ [][NextFilter]_vars

-----------------------------------------------------------------------------
(* The calls of the reader's seek primitive made by one command drain *)

RECURSIVE DemuxLoopSeeks(_)
\* DemuxerThread::demux_loop: demuxer.seek(timestamp_ms) is called in the arm
\* of every Seek command received, up to a Stop
DemuxLoopSeeks(cs) ==
    IF cs = <<>> THEN <<>>
    ELSE IF Head(cs).op = "Stop" THEN <<>>
    ELSE <<Head(cs).t>> \o DemuxLoopSeeks(Tail(cs))

\* the legacy demux thread: the drain only records last_seek_pos, and
\* demuxer.seek(seek_pos_ms) is called once after it
LegacyLoopSeeks(cs) ==
    IF cs = <<>> THEN <<>> ELSE <<cs[Len(cs)].t>>

-----------------------------------------------------------------------------
(* The mutexes of the PlaybackManager: state, seek_position, the clock's
   inner, current_file_path and external_subtitle_frames *)

Lock(m) == [op |-> "lock", m |-> m]
Unlock(m) == [op |-> "unlock", m |-> m]
\* a channel send or recv, a thread join or a codec call
Block(what) == [op |-> "block", m |-> what]

\* { let guard = m.lock().unwrap(); ... }: the guard is dropped at the end of
\* the block, which contains no call
Scoped(m) == <<Lock(m), Unlock(m)>>

\* stop(): the Stop command and the joins, the external cues,
\* clock.set_time(0), state
StopLocks ==
    <<Block("send"), Block("join"), Block("join"), Block("join"), Block("join")>>
    \o Scoped("external_subtitle_frames") \o Scoped("clock") \o Scoped("state")

\* open(): stop(), seek slot, state, file path, Demuxer::open and the
\* decoders, state, load_external_subtitles
OpenLocks ==
    StopLocks \o Scoped("seek_position") \o Scoped("state") \o Scoped("current_file_path")
    \o <<Block("codec")>> \o Scoped("state")
    \o Scoped("external_subtitle_frames")

\* attach_demuxer_async(): stop(), seek slot, state, the decoders, state
\* (Buffering), state (Paused)
AttachLocks ==
    StopLocks \o Scoped("seek_position") \o Scoped("state") \o <<Block("codec")>>
    \o Scoped("state") \o Scoped("state")

\* play(): state; when Stopped the file path and open_file(); clock.play();
\* state
PlayLocks(stopped) ==
    Scoped("state")
    \o (IF stopped THEN Scoped("current_file_path") \o OpenLocks ELSE <<>>)
    \o Scoped("clock") \o Scoped("state")

\* pause(): clock.pause(), state
PauseLocks == Scoped("clock") \o Scoped("state")

\* seek() with the seek-slot guard kept until the function returns
SeekLocksAcrossSend ==
    <<Lock("seek_position")>> \o Scoped("clock") \o Scoped("state")
    \o <<Block("send"), Unlock("seek_position")>>

\* seek(): seek slot, clock.set_time(), state, the command send
SeekLocks ==
    Scoped("seek_position") \o Scoped("clock") \o Scoped("state")
    \o <<Block("send")>>

\* get_state(): clock.now() is called with the state guard held
GetStateLocks ==
    <<Lock("state"), Lock("clock"), Unlock("clock"), Unlock("state")>>

\* set_volume(), get_media_info(), get_duration(), is_playing()
ReadStateLocks == Scoped("state")

\* update_audio(): state, then the volume for a frame written
UpdateAudioLocks == Scoped("state") \o Scoped("state")

\* get_position(), get_current_frame(): clock.now()
ClockNowLocks == Scoped("clock")

\* get_current_subtitle(): get_external_subtitle()
SubtitleLocks == Scoped("external_subtitle_frames")

\* a pass of a video decoder thread: the packet, decode, the seek filter
VideoDecoderLocks ==
    <<Block("recv"), Block("codec")>> \o Scoped("seek_position")

\* a pass of an audio decoder thread: the packet, decode, the seek filter,
\* clock.set_time() for the first frame
AudioDecoderLocks ==
    <<Block("recv"), Block("codec")>> \o Scoped("seek_position")
    \o Scoped("clock")

\* the calls that take &mut self, made under playback_manager.write()
ExclusiveCalls ==
    {OpenLocks, AttachLocks, PlayLocks(FALSE), PlayLocks(TRUE), StopLocks,
     UpdateAudioLocks}

\* the calls that take &self, made under playback_manager.read()
SharedCalls ==
    {PauseLocks, SeekLocks, GetStateLocks, ReadStateLocks, ClockNowLocks,
     SubtitleLocks}

\* the thread that holds mutex m, if any
Holders(m) == {th \in LockThreads : \E i \in 1..Len(locks.held[th]) : locks.held[th][i] = m}

EngineUntouched ==
    UNCHANGED <<state, path, running, first_audio, need_flush, is_network,
                seek_position, clock, audio_output, handles, dt_tx, cmds,
                demux, vpq, apq, spq, vdec, adec, sdec, vfq, afq, sfq, ctl,
                budget, obs, media, audio_buffer, current_frame_pts,
                external_subtitle_frames, call, stream_manager, sink>>

\* the controller enters a &mut self call: no other call is in progress
CallExclusive(program) ==
    /\ locks.mode["controller"] = "idle" /\ locks.mode["gui"] = "idle"
    /\ locks' = [locks EXCEPT !.prog["controller"] = program,
                              !.mode["controller"] = "write"]
    /\ EngineUntouched

\* the controller or the GUI pull enters a &self call: no &mut self call is
\* in progress
CallShared(th, program) ==
    /\ th \in {"controller", "gui"}
    /\ locks.mode[th] = "idle"
    /\ \A o \in {"controller", "gui"} : locks.mode[o] # "write"
    /\ locks' = [locks EXCEPT !.prog[th] = program, !.mode[th] = "read"]
    /\ EngineUntouched

\* a decoder thread begins its next pass
DecoderPass(th, program) ==
    /\ locks.mode[th] = "idle"
    /\ locks' = [locks EXCEPT !.prog[th] = program, !.mode[th] = "pass"]
    /\ EngineUntouched

\* m.lock(): waits until no thread holds m
Acquire(th) ==
    /\ locks.prog[th] # <<>> /\ Head(locks.prog[th]).op = "lock"
    /\ LET m == Head(locks.prog[th]).m IN
        /\ Holders(m) = {}
        /\ locks' = [locks EXCEPT
              !.prog[th] = Tail(@),
              !.held[th] = Append(@, m),
              !.nested = @ \cup {<<th, locks.held[th][i], m>> :
                                    i \in 1..Len(locks.held[th])}]
    /\ EngineUntouched

\* the guard is dropped
Release(th) ==
    /\ locks.prog[th] # <<>> /\ Head(locks.prog[th]).op = "unlock"
    /\ LET m == Head(locks.prog[th]).m IN
        locks' = [locks EXCEPT
              !.prog[th] = Tail(@),
              !.held[th] = SelectSeq(@, LAMBDA h : h # m)]
    /\ EngineUntouched

\* the send, recv, join or codec call returns
Unblock(th) ==
    /\ locks.prog[th] # <<>> /\ Head(locks.prog[th]).op = "block"
    /\ locks' = [locks EXCEPT !.prog[th] = Tail(@)]
    /\ EngineUntouched

\* the call returns
Return(th) ==
    /\ locks.prog[th] = <<>> /\ locks.mode[th] # "idle"
    /\ locks' = [locks EXCEPT !.mode[th] = "idle"]
    /\ EngineUntouched

\* Locking: the controller and the GUI pull call into the PlaybackManager
\* while the video and the audio decoder threads run pass after pass.
InitLocks ==
    /\ EngineAtRest
    /\ stream_manager = NoNet
    /\ seek_position = NoSeek
    /\ sfq = <<>>
    /\ external_subtitle_frames = <<>>
    /\ call = NoCall

NextLocks ==
    \/ \E program \in ExclusiveCalls : CallExclusive(program)
    \/ \E th \in {"controller", "gui"}, program \in SharedCalls :
          CallShared(th, program)
    \/ DecoderPass("video", VideoDecoderLocks)
    \/ DecoderPass("audio", AudioDecoderLocks)
    \/ \E th \in LockThreads : Acquire(th)
    \/ \E th \in LockThreads : Release(th)
    \/ \E th \in LockThreads : Unblock(th)
    \/ \E th \in LockThreads : Return(th)

LockSpec == InitLocks /\ [][NextLocks]_vars

-----------------------------------------------------------------------------
(* The GUI pull applied to one queue of decoded frames *)

\* the longest queue the GUI pull finds
MaxQueued == 12

\* len consecutive frames of a 25 fps stream, the first at first
FrameRun(first, len) == [i \in 1..len |-> first + (i - 1) * 40]

\* the clock values at which the GUI refreshes
RefreshTimes == {30, 40, 50, 60, 70, 150, 160, 170, 200, 600, 2010}

\* GUI pull: a session is playing, the video decoder has queued a run of
\* frames, the GUI shows a frame or none yet, and the display refreshes.
InitPull ==
    /\ state = "Playing"
    /\ path = "none"
    /\ running = FALSE
    /\ first_audio = TRUE
    /\ need_flush = FALSE
    /\ is_network = FALSE
    /\ seek_position = NoSeek
    /\ clock \in {[ClockNew EXCEPT !.paused = FALSE, !.base_pts = t] : t \in RefreshTimes}
    /\ audio_output = FALSE
    /\ handles = [demux |-> FALSE, dt |-> FALSE, video |-> FALSE,
                  audio |-> FALSE, sub |-> FALSE]
    /\ dt_tx = FALSE
    /\ cmds = <<>>
    /\ demux = NoDemux
    /\ vpq = <<>> /\ apq = <<>> /\ spq = <<>>
    /\ vdec = NoThread /\ adec = NoThread /\ sdec = NoThread
    /\ vfq \in {FrameRun(first, len) : first \in {40, 80, 120}, len \in 0..MaxQueued}
    /\ afq = <<>> /\ sfq = <<>>
    /\ external_subtitle_frames = <<>> /\ call = NoCall
    /\ locks = NoLocks
    /\ sink = NoSink
    /\ stream_manager = NoNet
    /\ ctl = Idle
    /\ budget = [opens |-> 0, seeks |-> 0]
    /\ media = PlainFile
    /\ obs = NoObs
    /\ audio_buffer = FALSE
    /\ current_frame_pts \in {NoPts, 0, 20, 1970}

NextPull == RenderVideo

PullSpec == InitPull /\ [][NextPull]_vars

-----------------------------------------------------------------------------
(* The PlaybackClock on its own: play, pause and set_rate while time passes *)

\* the rates set, in percent: 0.5, 1.0, 1.5 and 2.0 are exact in f64
Rates == {50, 100, 150, 200}

\* the wall time one behaviour of the clock covers, in ticks
MaxClockTicks == 3

CallOnClock(fn, arg, c) ==
    /\ clock' = c
    /\ call' = [fn |-> fn, arg |-> arg, ret |-> <<>>]
    /\ UNCHANGED <<state, path, running, first_audio, need_flush, is_network,
                   seek_position, audio_output, handles, dt_tx, cmds,
                   demux, vpq, apq, spq, vdec, adec, sdec, vfq, afq, sfq, ctl,
                   budget, obs, media, audio_buffer, current_frame_pts,
                   external_subtitle_frames, locks, stream_manager, sink>>

CallClockPlay == CallOnClock("play", <<>>, ClockPlay(clock))
CallClockPause == CallOnClock("pause", <<>>, ClockPause(clock))
CallClockSetRate == \E rate \in Rates : CallOnClock("set_rate", rate, ClockSetRate(clock, rate))

\* TICK_MS pass on the wall clock: base_instant.elapsed() grows, whether the
\* clock is paused or running
ClockTick ==
    /\ (IF clock.paused THEN clock.elapsed ELSE ClockNow(clock)) < MaxClockTicks * TICK_MS
    /\ CallOnClock("tick", <<>>, [clock EXCEPT !.elapsed = @ + TICK_MS])

InitRate ==
    /\ EngineAtRest
    /\ stream_manager = NoNet
    /\ seek_position = NoSeek
    /\ sfq = <<>>
    /\ external_subtitle_frames = <<>>
    /\ call = NoCall

NextRate == CallClockPlay \/ CallClockPause \/ CallClockSetRate \/ ClockTick

RateSpec == InitRate /\ [][NextRate]_vars

-----------------------------------------------------------------------------
(* NetworkStreamManager::reconnect / reset_reconnect_count,
   network_stream.rs 154-186 *)

\* the calls of reset_reconnect_count in one behaviour
MaxResets == 2

\* a reconnect() that tests the counter against nothing
ReconnectUnbounded(m) ==
    IF ~m.enabled THEN <<"NetworkError", m>>
    ELSE <<"Ok", [m EXCEPT !.current_attempt = @ + 1, !.connects = @ + 1]>>

\* reconnect(): <<result, manager afterwards>>; connect() returns Ok(())
Reconnect(m) ==
    IF ~m.enabled THEN <<"NetworkError", m>>
    ELSE IF m.current_attempt >= m.max_attempts THEN <<"NetworkError", m>>
    ELSE <<"Ok", [m EXCEPT !.current_attempt = @ + 1, !.connects = @ + 1]>>

CallOnStreamManager(fn, ret, m) ==
    /\ stream_manager' = m
    /\ call' = [fn |-> fn, arg |-> <<>>, ret |-> ret]
    /\ UNCHANGED <<state, path, running, first_audio, need_flush, is_network,
                   seek_position, clock, audio_output, handles, dt_tx, cmds,
                   demux, vpq, apq, spq, vdec, adec, sdec, vfq, afq, sfq, ctl,
                   budget, obs, media, audio_buffer, current_frame_pts,
                   external_subtitle_frames, locks, sink>>

CallReconnect ==
    /\ stream_manager.connects < (MaxResets + 1) * MAX_ATTEMPTS + 1
    /\ LET r == Reconnect(stream_manager) IN
        CallOnStreamManager("reconnect", r[1], r[2])

\* reset_reconnect_count()
CallResetReconnectCount ==
    /\ stream_manager.resets < MaxResets
    /\ CallOnStreamManager("reset_reconnect_count", <<>>,
                           [stream_manager EXCEPT !.current_attempt = 0,
                                                  !.resets = @ + 1])

\* Reconnecting: a stream manager whose reconnect_config is the default one,
\* allows fewer attempts, or is disabled
InitReconnect ==
    /\ EngineAtRest
    /\ seek_position = NoSeek
    /\ sfq = <<>>
    /\ external_subtitle_frames = <<>>
    /\ call = NoCall
    /\ stream_manager \in {[NoNet EXCEPT !.enabled = e, !.max_attempts = n] :
                              e \in BOOLEAN, n \in {0, 2, MAX_ATTEMPTS}}

NextReconnect == CallReconnect \/ CallResetReconnectCount

ReconnectSpec == InitReconnect /\ [][NextReconnect]_vars

-----------------------------------------------------------------------------
(* The audio path from the audio frame queue to the device: update_audio,
   manager.rs 838-867, and AudioOutput, audio_output.rs 129-186 *)

\* the samples of one AudioFrame (frame.data.len()), scaled down
FRAME_SAMPLES == 2

\* the buffer size above which update_audio stops (96000), scaled down
SINK_LIMIT == 4

\* the PTS distance of two audio frames
AUDIO_FRAME_MS == 20

\* the audio frames decoded in one behaviour
MaxAudioFrames == 5

\* output.buffer_size()
BufferSize(buffer) == Len(buffer) * FRAME_SAMPLES

RECURSIVE WriteFrames(_, _)
\* while let Some(frame) = audio_frame_queue.pop() { write_frame; if
\* buffer_size() > 96000 { break } }: <<queue left, buffer>>
WriteFrames(q, buffer) ==
    IF q = <<>> THEN <<q, buffer>>
    ELSE LET written == Append(buffer, Head(q)) IN
         IF BufferSize(written) > SINK_LIMIT
         THEN <<Tail(q), written>>
         ELSE WriteFrames(Tail(q), written)

AudioPathUntouched ==
    UNCHANGED <<path, running, first_audio, need_flush, is_network,
                seek_position, audio_output, handles, dt_tx, cmds,
                demux, vpq, apq, spq, vdec, adec, sdec, vfq, sfq, ctl,
                budget, obs, media, current_frame_pts,
                external_subtitle_frames, locks, stream_manager>>

\* the call just made
Called(fn) == call' = [fn |-> fn, arg |-> <<>>, ret |-> <<>>]

\* the audio decoder thread pushes the next frame of the stream
AudioFrameQueued ==
    /\ Len(sink.popped) + Len(afq) < MaxAudioFrames
    /\ afq' = Append(afq, (Len(sink.popped) + Len(afq)) * AUDIO_FRAME_MS)
    /\ UNCHANGED <<state, clock, audio_buffer, sink>>
    /\ Called("push")
    /\ AudioPathUntouched

\* update_audio()
CallUpdateAudio ==
    /\ IF state = "Playing" /\ audio_output
       THEN LET r == WriteFrames(afq, sink.buffer)
                n == Len(afq) - Len(r[1])
            IN  /\ afq' = r[1]
                /\ sink' = [sink EXCEPT !.buffer = r[2],
                                        !.popped = @ \o SubSeq(afq, 1, n)]
       ELSE UNCHANGED <<afq, sink>>
    /\ audio_buffer' = (sink'.buffer # <<>>)
    /\ UNCHANGED <<state, clock>>
    /\ Called("update_audio")
    /\ AudioPathUntouched

\* the cpal output callback: buffer.pop() for the samples of a frame
CallbackPlays ==
    /\ audio_output /\ sink.buffer # <<>>
    /\ sink' = [sink EXCEPT !.buffer = Tail(@), !.played = Append(@, Head(sink.buffer))]
    /\ audio_buffer' = (sink'.buffer # <<>>)
    /\ UNCHANGED <<state, clock, afq>>
    /\ Called("callback")
    /\ AudioPathUntouched

\* pause(): clock.pause(), output.clear_buffer(), state = Paused
PauseClearsBuffer ==
    /\ clock' = ClockPause(clock)
    /\ sink' = IF audio_output
               THEN [sink EXCEPT !.buffer = <<>>, !.cleared = @ \o sink.buffer]
               ELSE sink
    /\ audio_buffer' = (sink'.buffer # <<>>)
    /\ state' = "Paused"
    /\ UNCHANGED afq
    /\ Called("pause")
    /\ AudioPathUntouched

\* play() in a state other than Stopped: clock.play(), state = Playing
PlayResumes ==
    /\ state # "Stopped"
    /\ clock' = ClockPlay(clock)
    /\ state' = "Playing"
    /\ UNCHANGED <<afq, audio_buffer, sink>>
    /\ Called("play")
    /\ AudioPathUntouched

\* Audio: a source is open and paused with its audio output started; the
\* audio decoder queues frames, the GUI calls update_audio on every refresh,
\* the device plays, and the user pauses and resumes.  No seek, no stop.
InitAudio ==
    /\ state = "Paused"
    /\ path = "none"
    /\ running = FALSE
    /\ first_audio = TRUE
    /\ need_flush = FALSE
    /\ is_network = FALSE
    /\ seek_position = NoSeek
    /\ clock = ClockNew
    /\ audio_output = TRUE
    /\ handles = [demux |-> FALSE, dt |-> FALSE, video |-> FALSE,
                  audio |-> FALSE, sub |-> FALSE]
    /\ dt_tx = FALSE
    /\ cmds = <<>>
    /\ demux = NoDemux
    /\ vpq = <<>> /\ apq = <<>> /\ spq = <<>>
    /\ vdec = NoThread /\ adec = NoThread /\ sdec = NoThread
    /\ vfq = <<>> /\ afq = <<>> /\ sfq = <<>>
    /\ external_subtitle_frames = <<>> /\ call = NoCall
    /\ locks = NoLocks
    /\ stream_manager = NoNet
    /\ sink = NoSink
    /\ ctl = Idle
    /\ budget = [opens |-> 0, seeks |-> 0]
    /\ media = PlainFile
    /\ obs = NoObs
    /\ audio_buffer = FALSE
    /\ current_frame_pts = NoPts

NextAudio ==
    \/ AudioFrameQueued \/ CallUpdateAudio \/ CallbackPlays
    \/ PauseClearsBuffer \/ PlayResumes

AudioSpec == InitAudio /\ [][NextAudio]_vars

-----------------------------------------------------------------------------
(* impl Drop for PlaybackManager, manager.rs 2052-2071, followed by the     *)
(* drop of its fields, among them demuxer_thread_handle                     *)

\* the owner lets go of the PlaybackManager without calling stop()
CallDrop ==
    /\ ctl.pc = "idle"
    /\ ctl' = [pc |-> "drop_flag", ret |-> "idle", op |-> "drop", t |-> 0, live |-> FALSE]
    /\ UNCHANGED <<state, path, running, first_audio, need_flush, is_network,
                   seek_position, clock, audio_output, handles, dt_tx, cmds, demux,
                   vpq, apq, spq, vdec, adec, sdec, vfq, afq, sfq, budget, obs, media,
                   audio_buffer, current_frame_pts,
                   external_subtitle_frames, call, locks, stream_manager, sink>>

\* self.running.store(false)
DropFlag ==
    /\ ctl.pc = "drop_flag"
    /\ running' = FALSE
    /\ ctl' = [ctl EXCEPT !.pc = "drop_demux",
                          !.live = Alive(demux) \/ Alive(vdec) \/ Alive(adec) \/ Alive(sdec)]
    /\ UNCHANGED <<state, path, first_audio, need_flush, is_network,
                   seek_position, clock, audio_output, handles, dt_tx, cmds, demux,
                   vpq, apq, spq, vdec, adec, sdec, vfq, afq, sfq, budget, obs, media,
                   audio_buffer, current_frame_pts,
                   external_subtitle_frames, call, locks, stream_manager, sink>>

\* demux_thread.take() and join
DropJoinDemux ==
    /\ ctl.pc = "drop_demux"
    /\ IF handles.demux
       THEN /\ JoinReady(demux)
            /\ demux' = JoinedDemux(demux)
            /\ handles' = [handles EXCEPT !.demux = FALSE]
       ELSE UNCHANGED <<demux, handles>>
    /\ ctl' = [ctl EXCEPT !.pc = "drop_video"]
    /\ UNCHANGED <<state, path, running, first_audio, need_flush, is_network,
                   seek_position, clock, audio_output, dt_tx, cmds,
                   vpq, apq, spq, vdec, adec, sdec, vfq, afq, sfq, budget, obs, media,
                   audio_buffer, current_frame_pts,
                   external_subtitle_frames, call, locks, stream_manager, sink>>

\* video_decode_thread.take() and join
DropJoinVideo ==
    /\ ctl.pc = "drop_video"
    /\ IF handles.video
       THEN /\ JoinReady(vdec)
            /\ vdec' = Joined(vdec)
            /\ handles' = [handles EXCEPT !.video = FALSE]
       ELSE UNCHANGED <<vdec, handles>>
    /\ ctl' = [ctl EXCEPT !.pc = "drop_audio"]
    /\ UNCHANGED <<state, path, running, first_audio, need_flush, is_network,
                   seek_position, clock, audio_output, dt_tx, cmds, demux,
                   vpq, apq, spq, adec, sdec, vfq, afq, sfq, budget, obs, media,
                   audio_buffer, current_frame_pts,
                   external_subtitle_frames, call, locks, stream_manager, sink>>

\* audio_decode_thread.take() and join
DropJoinAudio ==
    /\ ctl.pc = "drop_audio"
    /\ IF handles.audio
       THEN /\ JoinReady(adec)
            /\ adec' = Joined(adec)
            /\ handles' = [handles EXCEPT !.audio = FALSE]
       ELSE UNCHANGED <<adec, handles>>
    /\ ctl' = [ctl EXCEPT !.pc = "drop_sub"]
    /\ UNCHANGED <<state, path, running, first_audio, need_flush, is_network,
                   seek_position, clock, audio_output, dt_tx, cmds, demux,
                   vpq, apq, spq, vdec, sdec, vfq, afq, sfq, budget, obs, media,
                   audio_buffer, current_frame_pts,
                   external_subtitle_frames, call, locks, stream_manager, sink>>

\* subtitle_decode_thread.take() and join; Drop::drop returns
DropJoinSub ==
    /\ ctl.pc = "drop_sub"
    /\ IF handles.sub
       THEN /\ JoinReady(sdec)
            /\ sdec' = Joined(sdec)
            /\ handles' = [handles EXCEPT !.sub = FALSE]
       ELSE UNCHANGED <<sdec, handles>>
    /\ ctl' = [ctl EXCEPT !.pc = "drop_dt"]
    /\ UNCHANGED <<state, path, running, first_audio, need_flush, is_network,
                   seek_position, clock, audio_output, dt_tx, cmds, demux,
                   vpq, apq, spq, vdec, adec, vfq, afq, sfq, budget, obs, media,
                   audio_buffer, current_frame_pts,
                   external_subtitle_frames, call, locks, stream_manager, sink>>

\* the fields are dropped once Drop::drop has returned; Drop for
\* DemuxerThread up to the join: if thread_handle.is_some(),
\* command_tx.send(Stop), video_packet_tx.take(), audio_packet_tx.take()
DropDemuxerThread ==
    /\ ctl.pc = "drop_dt"
    /\ IF handles.dt
       THEN /\ cmds' = IF Alive(demux) THEN Append(cmds, [op |-> "Stop", t |-> 0]) ELSE cmds
            /\ dt_tx' = FALSE
       ELSE UNCHANGED <<cmds, dt_tx>>
    /\ ctl' = [ctl EXCEPT !.pc = "drop_dt_join"]
    /\ UNCHANGED <<state, path, running, first_audio, need_flush, is_network,
                   seek_position, clock, audio_output, handles, demux,
                   vpq, apq, spq, vdec, adec, sdec, vfq, afq, sfq, budget, obs, media,
                   audio_buffer, current_frame_pts,
                   external_subtitle_frames, call, locks, stream_manager, sink>>

\* Drop for DemuxerThread: thread_handle.take() and handle.join(); the
\* PlaybackManager is gone
DropJoinDemuxerThread ==
    /\ ctl.pc = "drop_dt_join"
    /\ IF handles.dt
       THEN /\ JoinReady(demux)
            /\ demux' = JoinedDemux(demux)
            /\ handles' = [handles EXCEPT !.dt = FALSE]
            /\ cmds' = <<>>
       ELSE UNCHANGED <<demux, handles, cmds>>
    /\ ctl' = [ctl EXCEPT !.pc = "dropped"]
    /\ UNCHANGED <<state, path, running, first_audio, need_flush, is_network,
                   seek_position, clock, audio_output, dt_tx,
                   vpq, apq, spq, vdec, adec, sdec, vfq, afq, sfq, budget, obs, media,
                   audio_buffer, current_frame_pts,
                   external_subtitle_frames, call, locks, stream_manager, sink>>

DropStep ==
    \/ DropFlag \/ DropJoinDemux \/ DropJoinVideo \/ DropJoinAudio \/ DropJoinSub
    \/ DropDemuxerThread \/ DropJoinDemuxerThread

\* Dropping a DemuxerThread session: the user attaches a source and lets go
\* of the PlaybackManager at any moment without stopping it; nothing is
\* consumed.  The scheduler is fair to every thread and the controller
\* finishes a call it has begun.
DropControllerStep ==
    \/ StopStep \/ DropStep
    \/ OpenInit \/ OpenProbe \/ SpawnDemuxerThread \/ Buffering \/ BufferPoll \/ BufferingEnds

\* the sources dropped: one short enough for the reader to reach its end, one
\* long enough to fill the queues
DropFiles == {ShortFile, LongVideo}

InitDrop ==
    /\ state = "Idle"
    /\ path = "none"
    /\ running = FALSE
    /\ first_audio = TRUE
    /\ need_flush = FALSE
    /\ is_network = FALSE
    /\ seek_position = NoSeek
    /\ clock = ClockNew
    /\ audio_output = FALSE
    /\ handles = [demux |-> FALSE, dt |-> FALSE, video |-> FALSE,
                  audio |-> FALSE, sub |-> FALSE]
    /\ dt_tx = FALSE
    /\ cmds = <<>>
    /\ demux = NoDemux
    /\ vpq = <<>> /\ apq = <<>> /\ spq = <<>>
    /\ vdec = NoThread /\ adec = NoThread /\ sdec = NoThread
    /\ vfq = <<>> /\ afq = <<>> /\ sfq = <<>>
    /\ external_subtitle_frames = <<>> /\ call = NoCall
    /\ locks = NoLocks
    /\ sink = NoSink
    /\ stream_manager = NoNet
    /\ ctl = Idle
    /\ budget = [opens |-> 1, seeks |-> 0]
    /\ media \in DropFiles
    /\ obs = NoObs
    /\ audio_buffer = FALSE
    /\ current_frame_pts = NoPts

NextDrop ==
    \/ FairDemuxStep \/ DVideoStep \/ DAudioStep
    \/ DropControllerStep
    \/ CallOpen(DemuxerThreadEntryPoints) \/ CallDrop

DropSpec ==
    /\ InitDrop /\ [][NextDrop]_vars
    /\ WF_vars(FairDemuxStep) /\ WF_vars(DVideoStep) /\ WF_vars(DAudioStep)
    /\ WF_vars(DropControllerStep)

-----------------------------------------------------------------------------
(* Properties *)

\* C1: when stop() returns, in the legacy and in the DemuxerThread mode, the
\* demuxer thread and the video, audio and subtitle decoder threads have all
\* returned, every join handle has been taken, and the video, audio and
\* subtitle frame queues are empty.
StopJoinsAndDrains ==
    ctl.pc = "stop_ret" =>
        /\ ~Alive(demux) /\ ~Alive(vdec) /\ ~Alive(adec) /\ ~Alive(sdec)
        /\ ~handles.demux /\ ~handles.dt /\ ~handles.video
        /\ ~handles.audio /\ ~handles.sub
        /\ vfq = <<>> /\ afq = <<>> /\ sfq = <<>>

\* stop() returns after it found workers running and the demuxer left on the
\* stop request
StopReturnedFromRunningSession ==
    /\ ctl.pc = "stop_ret" /\ ctl.live
    /\ demux.exit = "stop"

\* C2: in DemuxerThread mode a stop() that has begun always returns, whatever
\* the demuxer and the decoders were blocked in, under fair scheduling.
StopAlwaysReturns ==
    (ctl.pc = "stop_flag" /\ handles.dt) ~> (ctl.pc = "stop_ret")

\* stop() is waiting in the DemuxerThread join while the demuxer is blocked in
\* send() on the full video channel, the video decoder sits in its hard-limit
\* or backoff wait and the audio decoder is blocked in recv() on the empty
\* audio channel
StopMeetsBlockedWorkers ==
    /\ ctl.pc = "stop_dt_join" /\ handles.dt
    /\ demux.pc = "d_send" /\ media[demux.pkt].k = "V"
    /\ Len(vpq) = VIDEO_CAPACITY
    /\ vdec.pc \in {"d_hard", "d_bp"} /\ Len(vfq) >= VIDEO_QUEUE_HARD_LIMIT
    /\ adec.pc = "d_recv" /\ apq = <<>>

\* C3: after seek(T) has returned, the first video frame the GUI pulls has
\* pts >= T - 1000 and the first audio frame written to the sink has
\* pts >= T - 500.
FirstFramesAfterSeek ==
    [][ /\ (/\ ctl.pc = "idle" /\ obs.firstV /\ ~obs'.firstV
            /\ vfq # <<>> /\ vfq' = Tail(vfq))
           => Head(vfq) >= obs.issued - VIDEO_TOLERANCE
        /\ (/\ ctl.pc = "idle" /\ obs.firstA /\ ~obs'.firstA
            /\ afq # <<>> /\ afq' # afq)
           => Head(afq) >= obs.issued - AUDIO_TOLERANCE ]_vars

\* C4: once seek(T) has returned, no step of the audio decoder thread changes
\* the time the clock shows (the clock was pre-set by seek and is not re-based
\* to a frame PTS).
NoRebaseAfterSeek ==
    [][ (ctl.pc = "idle" /\ obs.issued # NoPts /\ adec' # adec)
            => ClockNow(clock') = ClockNow(clock) ]_vars

\* C5: after a burst seek(t1); ...; seek(tN) with no demuxer read in between:
\* a published seek slot holds tN, the clock shows tN, and the demuxer, when
\* it takes the queued seek commands, leaves the reader at the position of tN.
BurstConvergesToLast ==
    [][ (budget.seeks = 0 /\ ctl.pc = "idle" /\ obs.issued # NoPts) =>
            /\ seek_position.some => seek_position.target = obs.issued
            /\ ClockNow(clock) = obs.issued
            /\ (cmds # <<>> /\ cmds' = <<>> /\ demux' # demux)
                   => demux'.rpos = SeekIndex(obs.issued) ]_vars

\* C6: the demuxer reader thread, legacy or DemuxerThread, never returns
\* because the reader reported end of stream.
ReaderSurvivesEof == demux.exit # "eof"

\* C7: in an open session of either mode every published SeekRequest is
\* eventually removed from the seek slot.
SlotEventuallyCleared ==
    (seek_position.some /\ (handles.dt \/ handles.demux)) ~> ~seek_position.some

\* C8: the video and the audio frame queue each hold at most their hard cap
\* plus one decoder output batch: the DemuxerThread-mode hard limits, or the
\* legacy limits of a local or of a network source.
FrameQueuesBounded ==
    /\ Len(vfq) <= (IF handles.dt THEN VIDEO_QUEUE_HARD_LIMIT ELSE MaxVideoFrames) + Batch
    /\ Len(afq) <= (IF handles.dt THEN AUDIO_QUEUE_HARD_LIMIT
                    ELSE IF is_network THEN NET_MAX_AUDIO_FRAMES
                    ELSE LOCAL_MAX_AUDIO_FRAMES) + Batch

\* C9: no entry point spawns workers while a worker of the previous session
\* is alive or its join handle is still held.
OneSessionOfWorkers == obs.orphans = {}

\* an entry point called on a running session has stopped it and its new
\* workers run
ReopenedRunningSession ==
    /\ ctl.pc \in {"attach_paused", "buffering"} /\ ctl.live
    /\ Alive(demux) /\ Alive(vdec) /\ Alive(adec)

\* C10: every change of PlaybackState is an edge of the lifecycle machine:
\* Playing only from Paused, Paused only from Opening, Buffering or Playing,
\* Error only left through Opening.
LifecycleEdgesOnly ==
    [][ /\ (state' = "Playing" /\ state # "Playing") => state = "Paused"
        /\ (state' = "Paused" /\ state # "Paused")
               => state \in {"Opening", "Buffering", "Playing"}
        /\ (state = "Error" /\ state' # "Error") => state' = "Opening" ]_vars

\* C11: when open() or open_stream() returns an error (the demuxer probe fails
\* or rejects the URL, or a decoder cannot be constructed), the playback state
\* is Idle and no worker thread is running.
FailedOpenLeavesIdle ==
    [][ (/\ ctl.pc \in {"open_probe", "open_spawn"}
         /\ ctl.op \in {"open", "open_stream"}
         /\ ctl'.pc = "idle" /\ ~running')
            => /\ state' = "Idle"
               /\ ~Alive(demux)' /\ ~Alive(vdec)' /\ ~Alive(adec)' /\ ~Alive(sdec)' ]_vars

\* C12: the step in which the demuxer thread, legacy or DemuxerThread, returns
\* because read_packet reported an error leaves PlaybackState = Error.
StreamErrorSetsError ==
    [][ (demux.exit # "err" /\ demux'.exit = "err") => state' = "Error" ]_vars

\* C18: whenever the audio decoder clears is_first_audio_frame it calls
\* set_time(frame.pts) for the frame it holds, it writes the clock in no other
\* step, and no step of the video or the subtitle decoder changes the clock.
AudioBaselineOncePerArming ==
    [][ /\ (first_audio /\ ~first_audio' /\ adec' # adec)
               => clock' = ClockSetTime(clock, adec.frame)
        /\ (adec' # adec /\ clock' # clock) => (first_audio /\ ~first_audio')
        /\ (vdec' # vdec \/ sdec' # sdec) => clock' = clock ]_vars

\* C19: attach_demuxer_async leaves Buffering only for Paused, and only when
\* the video channel holds TARGET_VIDEO_PACKETS and the audio channel
\* TARGET_AUDIO_PACKETS or when the timeout has elapsed; a round of the loop
\* that runs before the timeout with both channels at their target ends the
\* wait.
BufferingEndsAtTargets ==
    [][ /\ (state = "Buffering" /\ state' # "Buffering")
               => /\ state' = "Paused"
                  /\ \/ ctl.t >= BUFFER_TIMEOUT_POLLS
                     \/ /\ Len(vpq) >= TARGET_VIDEO_PACKETS
                        /\ Len(apq) >= TARGET_AUDIO_PACKETS
        /\ (/\ ctl.pc = "buffer_wait" /\ ctl.t < BUFFER_TIMEOUT_POLLS
            /\ Len(vpq) >= TARGET_VIDEO_PACKETS
            /\ Len(apq) >= TARGET_AUDIO_PACKETS
            /\ ctl' # ctl)
               => ctl'.pc # "buffer_wait" ]_vars

\* C13: play() in Stopped re-opens the source of the last session, whichever
\* entry point started it: stop() leaves current_file_path holding that
\* source, play() hands exactly it to open(), and the call ends in Playing
\* with the clock running.
PlayRestartsLastSource ==
    [][ /\ (state' = "Stopped" /\ ctl'.pc = "idle" /\ obs'.source # "none")
               => path' = obs'.source
        /\ (ctl.pc = "idle" /\ ctl'.ret = "play" /\ obs.source # "none")
               => path = obs.source
        /\ (ctl.pc = "play_fin" /\ ctl'.pc = "idle")
               => (state' = "Playing" /\ ~clock'.paused) ]_vars

\* C14: from the return of stop() until the next call the position reads 0,
\* also when the session was Playing, and the play() that re-opens the source
\* ends in Playing with position 0.
StopResetsPosition ==
    [][ /\ (state' = "Stopped" /\ ctl'.pc = "idle") => ClockNow(clock') = 0
        /\ (ctl.pc = "play_fin" /\ ctl'.pc = "idle")
               => (state' = "Playing" /\ ClockNow(clock') = 0) ]_vars

\* C15: pause() in Playing leaves the state Paused, the clock paused at the
\* position it showed at the call and the output buffer empty, and no step
\* taken while the state is not Playing writes to the output buffer.
PauseHoldsAndSilences ==
    [][ /\ (ctl.pc = "idle" /\ state = "Playing" /\ state' = "Paused")
               => /\ clock'.paused
                  /\ ClockNow(clock') = ClockNow(clock)
                  /\ ~audio_buffer'
        /\ state # "Playing" => (audio_buffer' => audio_buffer) ]_vars

\* the session is paused at a position past the start, with the audio the
\* decoder has queued left in the frame queue and the output buffer empty
PausedPastStart ==
    /\ state = "Paused" /\ ctl.pc = "idle"
    /\ clock.paused /\ clock.paused_at > 0
    /\ audio_output /\ ~audio_buffer /\ afq # <<>>

\* C16: no step in which the clock is paused before or after changes the
\* position, unless it is a set_time (stop(), or the audio decoder's
\* baseline): pause() keeps the position, the pause keeps it, play() keeps it.
PausePlayKeepsPosition ==
    [][ (/\ clock.paused \/ clock'.paused
         /\ ctl.pc # "stop_reset" /\ ctl.pc # "seek_clock"
         /\ ~(first_audio /\ ~first_audio'))
            => ClockNow(clock') = ClockNow(clock) ]_vars

\* play() has resumed a session that was paused past the start: the clock
\* runs again from the position of the pause
ResumedWherePaused ==
    /\ state = "Playing" /\ ctl.pc = "idle"
    /\ ~clock.paused /\ clock.elapsed = 0 /\ clock.base_pts > 0

\* C17: while the state is Playing and no seek intervenes, no step of any
\* thread lets the position go back.
MonotonicWhilePlaying ==
    [][ (state = "Playing" /\ state' = "Playing" /\ ctl.pc # "seek_clock")
            => ClockNow(clock') >= ClockNow(clock) ]_vars

\* C20: every frame render_video_area fetches from a non-empty queue and
\* shows lies within 1000 ms of the clock value it was fetched for.
RenderedFrameNearClock ==
    [][ (ctl.pc = "idle" /\ ctl'.pc = "idle" /\ Len(vfq') < Len(vfq))
            => /\ current_frame_pts' - CurrentTimeMs <= 1000
               /\ CurrentTimeMs - current_frame_pts' <= 1000 ]_vars

\* C21: get_current_subtitle(now) returns, among the cues of the subtitle
\* queue that cover now, one with the largest start, and returns a queued cue
\* whenever one covers now.
EmbeddedCueLargestStart ==
    [][ call'.fn = "get_current_subtitle" =>
          LET now == call'.arg
              cover == {i \in 1..Len(sfq) : Covers(sfq[i], now)}
          IN  cover # {} =>
                \E i \in cover : /\ call'.ret = sfq[i]
                                 /\ \A j \in cover : sfq[j].pts <= sfq[i].pts ]_vars

\* C22: get_current_subtitle(now) returns an external cue only when no queued
\* cue covers now, and then the external cue with the largest start among
\* the external cues that cover now.
ExternalCueLargestStart ==
    [][ call'.fn = "get_current_subtitle" =>
          LET now == call'.arg
              ext == external_subtitle_frames
              cover == {i \in 1..Len(sfq) : Covers(sfq[i], now)}
              ecover == {i \in 1..Len(ext) : Covers(ext[i], now)}
          IN  /\ cover # {} => \E i \in cover : call'.ret = sfq[i]
              /\ (cover = {} /\ ecover # {}) =>
                    \E i \in ecover : /\ call'.ret = ext[i]
                                      /\ \A j \in ecover : ext[j].pts <= ext[i].pts ]_vars

\* C23: a seek either leaves the seek slot and the clock as they were or sets
\* them to a target within the duration: no seek puts the slot's target or
\* the position past duration_ms().
SeekStaysWithinDuration ==
    [][ /\ (ctl.pc = "seek_slot" /\ ctl' # ctl)
              => \/ seek_position' = seek_position
                 \/ seek_position'.target <= DurationMs
        /\ (ctl.pc = "seek_clock" /\ ctl' # ctl)
              => \/ clock' = clock
                 \/ ClockNow(clock') <= DurationMs ]_vars

\* C24: no frame produced by SubtitleDecoder::decode or by the parsers of
\* subtitle files has an empty text: a cue that is empty after tag stripping
\* is dropped.
NoEmptyCue ==
    [][ call'.fn \in {"decode", "parse_ass_dialogue_line", "parse_srt"}
            => \A i \in 1..Len(call'.ret) : call'.ret[i] # <<>> ]_vars

\* C25: for a text whose braces pair up, clean_ass_text returns the text
\* with every {...} block removed and every \N or \n outside a block replaced
\* by a newline, all other characters unchanged and in their order (up to
\* the white space around the whole text).
CleanAssTextStripsAndBreaks ==
    [][ call'.fn = "clean_ass_text" =>
          LET RECURSIVE Paired(_, _)
              Paired(s, in) ==
                  IF s = <<>> THEN ~in
                  ELSE IF Head(s) = "{" THEN ~in /\ Paired(Tail(s), TRUE)
                  ELSE IF Head(s) = "}" THEN in /\ Paired(Tail(s), FALSE)
                  ELSE Paired(Tail(s), in)
              RECURSIVE Cleaned(_, _)
              Cleaned(s, in) ==
                  IF s = <<>> THEN <<>>
                  ELSE IF Head(s) = "{" THEN Cleaned(Tail(s), TRUE)
                  ELSE IF Head(s) = "}" THEN Cleaned(Tail(s), FALSE)
                  ELSE IF in THEN Cleaned(Tail(s), in)
                  ELSE IF Head(s) = "\\" /\ Tail(s) # <<>> /\ Head(Tail(s)) \in {"N", "n"}
                       THEN <<LF>> \o Cleaned(Tail(Tail(s)), in)
                  ELSE <<Head(s)>> \o Cleaned(Tail(s), in)
          IN  Paired(call'.arg, FALSE)
                  => call'.ret = Trim(Cleaned(call'.arg, FALSE)) ]_vars

\* C26: parse_srt_timestamp maps h:m:s,f to h*3600000 + m*60000 + s*1000 + f
\* and parse_ass_timestamp maps h:m:s.c to h*3600000 + m*60000 + s*1000 +
\* c*10, for all numeric fields; each returns None when its fraction
\* separator is missing or the time part is not three numeric fields.
TimestampsParsed ==
    [][ call'.fn \in {"parse_srt_timestamp", "parse_ass_timestamp"} =>
          LET w == call'.arg
              value == [f \in TimeFields \cup FractionFields |->
                           CASE f = <<"1">> -> 1
                             [] f = <<"0", "7">> -> 7
                             [] f = <<"3", "0">> -> 30
                             [] f = <<"5">> -> 5
                             [] f = <<"5", "0">> -> 50
                             [] f = <<"5", "0", "0">> -> 500
                             [] OTHER -> NoTime]
              srt == call'.fn = "parse_srt_timestamp"
              separated == w.sep = (IF srt THEN "," ELSE ".")
              three == /\ Len(w.fields) = 3
                       /\ \A i \in 1..3 : value[w.fields[i]] # NoTime
          IN  /\ (separated /\ three /\ value[w.frac] # NoTime)
                    => call'.ret = value[w.fields[1]] * 3600000
                                   + value[w.fields[2]] * 60000
                                   + value[w.fields[3]] * 1000
                                   + value[w.frac] * (IF srt THEN 1 ELSE 10)
              /\ (~separated \/ ~three) => call'.ret = NoTime ]_vars

\* parse_ass_timestamp has parsed 1:07:30.50
AssTimestampParsed ==
    /\ call.fn = "parse_ass_timestamp"
    /\ call.arg = [fields |-> << <<"1">>, <<"0", "7">>, <<"3", "0">> >>,
                   sep |-> ".", frac |-> <<"5", "0">>]
    /\ call.ret = 4050500

\* C27: the flush signal of a seek reaches both decoder threads: when a
\* decoder takes the signal down, the video decoder and the audio decoder
\* have both flushed for that seek.
FlushReachesBothDecoders ==
    [][ (need_flush /\ ~need_flush' /\ ctl' = ctl)
            => (vdec'.recent /\ adec'.recent) ]_vars

\* C28: a decoder of either mode drops the frame in hand exactly when the
\* seek slot holds a request issued at most 2 s ago and the frame's PTS is
\* below target - tolerance (1000 ms video, 500 ms audio) or above
\* target + 10000 ms.
FrameDroppedOutsideWindow ==
    [][ call'.fn \in {"legacy_video_filter", "legacy_audio_filter",
                      "dt_video_filter", "dt_audio_filter"} =>
          LET pts == call'.arg
              tolerance == IF call'.fn \in {"legacy_video_filter", "dt_video_filter"}
                           THEN 1000 ELSE 500
          IN  call'.ret = (/\ seek_position.some /\ ~seek_position.expired
                           /\ \/ pts < seek_position.target - tolerance
                              \/ pts > seek_position.target + 10000) ]_vars

\* C29: a pass of the demuxer loop of either mode takes every pending command
\* before it reads a packet; with Seek commands pending the reader's seek
\* primitive is called once, with the last target; a pending Stop ends the
\* loop without a packet being read.
DrainSeeksOnce ==
    [][ /\ (demux.pc = "d_top" /\ demux' # demux) =>
            LET stop == \E i \in 1..Len(cmds) : cmds[i].op = "Stop"
                seeks == SelectSeq(cmds, LAMBDA c : c.op = "Seek")
            IN  /\ stop => demux'.pc = "done"
                /\ ~stop => cmds' = <<>> /\ demux'.pc = "d_read"
                /\ (~stop /\ seeks # <<>>) =>
                      /\ DemuxLoopSeeks(cmds) = <<seeks[Len(seeks)].t>>
                      /\ demux'.rpos = SeekIndex(seeks[Len(seeks)].t)
        /\ (demux.pc = "l_top" /\ running /\ demux' # demux) =>
            /\ cmds' = <<>>
            /\ cmds # <<>> =>
                  /\ LegacyLoopSeeks(cmds) = <<cmds[Len(cmds)].t>>
                  /\ demux'.rpos = SeekIndex(cmds[Len(cmds)].t)
                  /\ demux'.pc = "l_top"
            /\ cmds = <<>> => demux'.pc = "l_read" ]_vars

\* C30: no thread holds the state, seek-slot, clock, file-path or
\* external-subtitle mutex while it is in a channel send or recv, a thread
\* join or a codec call; no two of these mutexes are taken in opposite orders
\* by different threads; and no set of threads waits in a cycle for mutexes
\* its members hold.
LockDiscipline ==
    /\ \A th \in LockThreads :
          (locks.prog[th] # <<>> /\ Head(locks.prog[th]).op = "block")
              => locks.held[th] = <<>>
    /\ \A x \in locks.nested, y \in locks.nested :
          ~(x[1] # y[1] /\ x[2] = y[3] /\ x[3] = y[2])
    /\ ~ \E S \in SUBSET LockThreads :
          /\ S # {}
          /\ \A th \in S :
                /\ locks.prog[th] # <<>> /\ Head(locks.prog[th]).op = "lock"
                /\ Holders(Head(locks.prog[th]).m) \cap S # {}

\* the controller is in the command send of seek() while the GUI pull holds
\* the state and the clock guards in get_state() and the audio decoder holds
\* the seek-slot guard in its filter
SendWhileOthersHoldLocks ==
    /\ locks.prog["controller"] = <<Block("send")>>
    /\ locks.held["gui"] = <<"state", "clock">>
    /\ locks.held["audio"] = <<"seek_position">>

\* C31: a display refresh with a current frame and lag = current_time_ms -
\* current_frame_pts fetches a frame only if lag >= 40 when lag <= 50, only
\* if lag >= 30 when 50 < lag <= 150, and always when lag > 150 (a fetch on a
\* queue that holds a frame pops it); it pops at most one frame in the first
\* two tiers, at most 10 in the third, and none below the threshold.
RefreshPopsByTier ==
    current_frame_pts # NoPts =>
        LET lag == CurrentTimeMs - current_frame_pts
            r == FetchFrame(vfq, CurrentTimeMs, current_frame_pts)
            popped == Len(vfq) - Len(r[2])
            fetches == IF lag <= 50 THEN lag >= 40
                       ELSE IF lag <= 150 THEN lag >= 30
                       ELSE TRUE
        IN  /\ r[2] = SubSeq(vfq, popped + 1, Len(vfq))
            /\ ~fetches => (popped = 0 /\ r[1] = NoPts)
            /\ (fetches /\ vfq # <<>>) => (popped >= 1 /\ r[1] # NoPts)
            /\ lag <= 150 => popped <= 1
            /\ lag > 150 => popped <= 10

\* the GUI was 600 ms behind with twelve stale frames queued: the refresh
\* popped ten of them and left two
JumpedTenFrames ==
    /\ CurrentTimeMs = 600
    /\ current_frame_pts = 400
    /\ vfq = <<440, 480>>

\* C32: a refresh of the third tier (lag > 150 ms) that shows a new frame
\* shows the first frame of the queue with pts >= now - 80 ms; the frames
\* before it are discarded, and a frame with pts < now - 80 ms is never
\* shown.
JumpShowsFirstFreshFrame ==
    [][ (/\ current_frame_pts # NoPts
         /\ CurrentTimeMs - current_frame_pts > 150
         /\ current_frame_pts' # current_frame_pts) =>
            /\ current_frame_pts' >= CurrentTimeMs - 80
            /\ \E i \in 1..Len(vfq) :
                  /\ vfq[i] = current_frame_pts'
                  /\ \A j \in 1..(i - 1) : vfq[j] < CurrentTimeMs - 80
                  /\ vfq' = SubSeq(vfq, i + 1, Len(vfq)) ]_vars

\* C33: set_rate(r) leaves now() of the instant of the call unchanged, on a
\* running clock (which it re-anchors) and on a paused one (where now() stays
\* paused_at); a running clock then advances by r times the wall time, and a
\* play() after a set_rate on a paused clock starts at the paused position
\* with the rate set.
SetRateKeepsNow ==
    [][ /\ call'.fn = "set_rate" =>
            /\ ClockNow(clock') = ClockNow(clock)
            /\ clock'.rate = call'.arg
            /\ clock'.paused = clock.paused
            /\ clock.paused => ClockNow(clock') = clock.paused_at
        /\ (call'.fn = "tick" /\ ~clock.paused) =>
            ClockNow(clock') = ClockNow(clock) + (TICK_MS * clock.rate) \div 100
        /\ (call'.fn = "tick" /\ clock.paused) =>
            ClockNow(clock') = ClockNow(clock)
        /\ (call'.fn = "play" /\ clock.paused) =>
            /\ ClockNow(clock') = clock.paused_at
            /\ clock'.rate = clock.rate /\ ~clock'.paused ]_vars

\* the clock ran at 1.0 for a tick and set_rate(1.5) was just called
RateSetWhileRunning ==
    /\ call.fn = "set_rate" /\ call.arg = 150
    /\ ~clock.paused /\ clock.base_pts = TICK_MS /\ clock.elapsed = 0

\* C34: reconnect() connects only while current_attempt < max_attempts, so
\* between two reset_reconnect_count it connects at most max_attempts times;
\* any later call returns NetworkError, connects to nothing and leaves the
\* counter alone; current_attempt never exceeds max_attempts; with the
\* config disabled every call fails and nothing is counted.
ReconnectBounded ==
    /\ [](stream_manager.current_attempt <= stream_manager.max_attempts)
    /\ [](stream_manager.connects
             <= (stream_manager.resets + 1) * stream_manager.max_attempts)
    /\ [][ call'.fn = "reconnect" =>
             IF stream_manager.enabled
                /\ stream_manager.current_attempt < stream_manager.max_attempts
             THEN /\ call'.ret = "Ok"
                  /\ stream_manager'.connects = stream_manager.connects + 1
                  /\ stream_manager'.current_attempt
                        = stream_manager.current_attempt + 1
             ELSE /\ call'.ret = "NetworkError"
                  /\ stream_manager' = stream_manager ]_vars

\* the fifth reconnect() of the default config succeeded and a sixth call
\* was refused
SixthReconnectRefused ==
    /\ stream_manager.enabled /\ stream_manager.max_attempts = 5
    /\ stream_manager.current_attempt = 5 /\ stream_manager.connects = 5
    /\ call.fn = "reconnect" /\ call.ret = "NetworkError"

\* C35: update_audio() in a state other than Playing leaves the audio frame
\* queue and the sink buffer as they are; in Playing it moves frames from the
\* head of the queue to the tail of the buffer, in order, and stops once the
\* buffer holds more than the limit; the buffer never holds more than the
\* limit plus one frame.
SinkBufferBounded ==
    /\ [](BufferSize(sink.buffer) <= SINK_LIMIT + FRAME_SAMPLES)
    /\ [][ call'.fn = "update_audio" =>
             IF state # "Playing"
             THEN afq' = afq /\ sink'.buffer = sink.buffer
             ELSE \E n \in 0..Len(afq) :
                     /\ afq' = SubSeq(afq, n + 1, Len(afq))
                     /\ sink'.buffer = sink.buffer \o SubSeq(afq, 1, n)
                     /\ (afq' # <<>>) => BufferSize(sink'.buffer) > SINK_LIMIT
                     /\ n > 1 => BufferSize(sink.buffer \o SubSeq(afq, 1, n - 1))
                                     <= SINK_LIMIT ]_vars

DropTerminates == (ctl.op = "drop") ~> (ctl.pc = "dropped")

\* C37: the clock runs only while the state is Playing: whenever the state
\* is Paused, also a Paused reached by opening a new source over a playing
\* one, the clock is paused, and wall time that passes in Paused leaves the
\* position where it was.
PausedClockStands ==
    /\ [](state = "Paused" => clock.paused)
    /\ [][state = "Paused" /\ state' = "Paused" /\ clock'.elapsed # clock.elapsed
            => ClockNow(clock') = ClockNow(clock)]_vars

\* C38: get_current_subtitle(now) removes from the subtitle queue only cues
\* that have expired: every cue with end_pts > now, active or still to come,
\* chosen as the best cue or not, is in the queue after the call as often as
\* before it.
LiveCuesStayQueued ==
    [][call'.fn = "get_current_subtitle" =>
         \A f \in SubtitleFrames :
             f.end_pts > call'.arg =>
                 Cardinality({i \in DOMAIN sfq' : sfq'[i] = f})
                     >= Cardinality({i \in DOMAIN sfq : sfq[i] = f})]_vars

====
